---- MODULE Spec2Model ----
(***************************************************************************)
(* Verification model of the bee node: netstore (pkg/netstore), the        *)
(* in-memory storer it wraps (pkg/storage/mock) and push-sync              *)
(* (pkg/pushsync).  Every component has its own specification over the     *)
(* shared variable tuple; a component's actions leave the other            *)
(* components' variables unchanged.                                        *)
(***************************************************************************)
EXTENDS Integers, Sequences, FiniteSets, TLC

(***************************************************************************)
(* Bounds of the model.                                                    *)
(***************************************************************************)
\* number of chunk addresses the netstore operations range over
NumAddrs == 2
\* largest number of recovery goroutines in flight
MaxPending == 1
\* number of peers that can be connected
NumPeers == 5

(***************************************************************************)
(* Addresses, chunks, proximity.                                           *)
(***************************************************************************)
NoData == 0
NoChunk == <<0, 0>>
Addrs == 1..NumAddrs
\* two payloads, with different content addresses
Datas == {1, 2}
Modes == {"ModePutRequest", "ModePutUpload"}

\* swarm.NewChunk(addr, data)
NewChunk(addr, data) == <<addr, data>>

\* bitwise exclusive or of two addresses
RECURSIVE Xor(_, _)
Xor(a, b) ==
    IF a = 0 /\ b = 0 THEN 0
    ELSE (((a % 2) + (b % 2)) % 2) + 2 * Xor(a \div 2, b \div 2)

\* swarm.DistanceCmp(a, x, y): 1 when x is closer to a than y, -1 when x is
\* farther from a than y, 0 when both are equally far
DistanceCmp(a, x, y) ==
    IF Xor(a, x) < Xor(a, y) THEN 1
    ELSE IF Xor(a, x) > Xor(a, y) THEN 0 - 1
    ELSE 0

\* the content address of a payload: the address the content validator
\* recomputes from the chunk's data
ContentAddress(data) == (data % NumAddrs) + 1

(***************************************************************************)
(* Validators.  "mock" is pkg/content/mock, which accepts every chunk;     *)
(* "content" accepts a chunk whose address is the address of its data.     *)
(***************************************************************************)
ValidatorKinds == {"mock", "content"}
NoValidator == "nil"

Validate(v, ch) ==
    IF v = "mock" THEN TRUE
    ELSE ch[1] = ContentAddress(ch[2])

(***************************************************************************)
(* MockStorer: the store, its optional validator, the per-bin ids and the  *)
(* base address.                                                           *)
(***************************************************************************)
EmptyStore == [a \in Addrs |-> NoData]

\* the number of bits of an address of the model
AddrWidth == 2
\* swarm.MaxBins, for addresses of AddrWidth bits
MaxBins == AddrWidth + 1

\* bit i of a, counted from the most significant of the AddrWidth bits
RECURSIVE Pow2(_)
Pow2(n) == IF n = 0 THEN 1 ELSE 2 * Pow2(n - 1)
Bit(a, i) == (a \div Pow2(AddrWidth - i)) % 2

\* swarm.Proximity: the number of leading bits two addresses share, at most
\* MaxBins - 1
RECURSIVE ProximityFrom(_, _, _)
ProximityFrom(one, other, i) ==
    IF i > AddrWidth THEN AddrWidth
    ELSE IF Bit(one, i) # Bit(other, i) THEN i - 1
    ELSE ProximityFrom(one, other, i + 1)
Proximity(one, other) == ProximityFrom(one, other, 1)

NoBins == [po \in 0..(MaxBins - 1) |-> 0]

\* mock.NewStorer, with WithBaseAddress(base)
NewStorer(base) ==
    [store |-> EmptyStore, validator |-> NoValidator, bins |-> NoBins,
     baseAddress |-> base]

\* mock.NewValidatingStorer
NewValidatingStorer(v) ==
    [store |-> EmptyStore, validator |-> v, bins |-> NoBins, baseAddress |-> 0]

\* MockStorer.has
MockHas(m, addr) == m.store[addr] # NoData

\* MockStorer.Get
MockGet(m, addr) ==
    IF ~MockHas(m, addr)
    THEN [ch |-> NoChunk, err |-> "ErrNotFound"]
    ELSE [ch |-> NewChunk(addr, m.store[addr]), err |-> "nil"]

\* one turn of the loop of MockStorer.Put for a chunk the validator accepted,
\* with the address looked up before the chunk is written
PutChunk_hasFirst(m, ch) ==
    LET yes == MockHas(m, ch[1])
        m1 == [m EXCEPT !.store[ch[1]] = ch[2]]
    IN
    IF yes THEN [m |-> m1, exist |-> TRUE]
    ELSE [m |-> [m1 EXCEPT !.bins[Proximity(ch[1], m.baseAddress)] = @ + 1],
          exist |-> FALSE]

\* one turn of the loop of MockStorer.Put for a chunk the validator accepted:
\* the chunk is written, then the address is looked up with has
PutChunk(m, ch) ==
    LET m1 == [m EXCEPT !.store[ch[1]] = ch[2]]
        yes == MockHas(m1, ch[1])
    IN
    IF yes THEN [m |-> m1, exist |-> TRUE]
    ELSE [m |-> [m1 EXCEPT !.bins[Proximity(ch[1], m.baseAddress)] = @ + 1],
          exist |-> FALSE]

\* MockStorer.Put: the chunks are validated and stored one after the other;
\* a rejected chunk ends the call and leaves the earlier chunks stored
RECURSIVE MockPutLoop(_, _, _)
MockPutLoop(m, chs, exist) ==
    IF chs = <<>> THEN [m |-> m, exist |-> exist, err |-> "nil"]
    ELSE LET ch == Head(chs) IN
         IF m.validator # NoValidator /\ ~Validate(m.validator, ch)
         THEN [m |-> m, exist |-> <<>>, err |-> "ErrInvalidChunk"]
         ELSE LET r == PutChunk(m, ch) IN
              MockPutLoop(r.m, Tail(chs), Append(exist, r.exist))

MockPut(m, mode, chs) == MockPutLoop(m, chs, <<>>)

\* MockStorer.LastPullSubscriptionBinID
LastPullSubscriptionBinID(m, bin) == m.bins[bin]

(***************************************************************************)
(* Netstore.                                                               *)
(***************************************************************************)
VARIABLES
    nsStore,        \* store.Storer: the wrapped MockStorer
    nsValidators,   \* store.validators
    nsCallback,     \* store.recoveryCallback # nil
    nsHooks,        \* number of recovery goroutines started and not yet run
    nsLast          \* the last operation: its arguments, calls and result

\* push-sync
VARIABLES
    connected,      \* the peers the topology is connected to
    handler,        \* the locals of a run of the handler and its position
    hEvents,        \* the calls the handler made, in order
    psChunk,        \* ch.Address() of the chunk being pushed
    push,           \* the locals of the call and its position
    psEvents,       \* the calls made on streamer, accounting and tags, in order
    tagSent         \* the tag's counter of state StateSent

\* the MockStorer used on its own
VARIABLES
    storer,         \* MockStorer.store, validator, bins and baseAddress
    storerLast,     \* the last call on the store: its arguments and result
    modeSet,        \* MockStorer.modeSet
    pinnedAddress,  \* MockStorer.pinnedAddress
    pinnedCounter,  \* MockStorer.pinnedCounter
    pinLast         \* the last call of Set: its arguments and result

\* the pull subscriptions of a MockStorer
VARIABLES
    subpull,          \* MockStorer.subpull, a descriptor being its bin id
    partialInterval,  \* MockStorer.partialInterval
    pullMtx,          \* MockStorer.mtx: Unlocked or the goroutine that holds it
    quit,             \* MockStorer.quit is closed
    morePull,         \* MockStorer.morePull is closed
    subs,             \* the goroutine and the channels of every SubscribePull
    pullPanic         \* the call that panicked, "none" while the program runs

\* the joiner
VARIABLES
    jFile,      \* the length of the file whose root chunk the job is given
    jStore,     \* SimpleJoinerJob.store: the chunks it holds
    job,        \* the fields of the SimpleJoinerJob
    prod,       \* the goroutine that runs start: its position and locals
    jClosed,    \* dataC is closed
    jCtxDone,   \* ctx is cancelled
    reader      \* the consumer: its buffer, the bytes and the result it got

\* the hash-trie writer
VARIABLES
    trie,       \* the references of every level, the full flag and the store
    tWritten,   \* the spans of the records ChainWrite accepted, in order
    tCalls,     \* the number of ChainWrite calls made
    tLast       \* the last call: its reference and its error

\* the peer set of kademlia
VARIABLES
    pslice,     \* the PSlice: its peers and the cursors of its bins
    slLast      \* the last call on it and what it returned

\* the metrics collector of kademlia
VARIABLES
    counters,   \* the Counters of the peer in the map of the Collector
    shedDb,     \* the persistent fields of the peer in the database
    mClock,     \* the latest time given to an operation
    mSessions,  \* the sessions of the peer as the callers made them
    mLast       \* the last call on the Collector and what it returned

\* the chunk feeder of the file pipeline
VARIABLES
    feeder,     \* the bytes written and the chunks given to the next stage
    cfLast      \* the last call on the feeder and what it returned

\* the uploads of single-owner chunks through the API
VARIABLES
    socStore,   \* the data the store of the API holds, by address
    uploads     \* the runs of socUploadHandler, by request

netVars == <<nsStore, nsValidators, nsCallback, nsHooks, nsLast>>
pushVars == <<psChunk, push, psEvents, tagSent>>
handlerVars == <<handler, hEvents>>
storerVars == <<storer, storerLast>>
pinVars == <<modeSet, pinnedAddress, pinnedCounter, pinLast>>
\* the variables of the local store and of the file pipeline
pullVars == <<subpull, partialInterval, pullMtx, quit, morePull, subs, pullPanic>>
joinerVars == <<jFile, jStore, job, prod, jClosed, jCtxDone, reader>>
trieVars == <<trie, tWritten, tCalls, tLast>>
psliceVars == <<pslice, slLast>>
metricsVars == <<counters, shedDb, mClock, mSessions, mLast>>
feederVars == <<feeder, cfLast>>
socVars == <<socStore, uploads>>
localVars ==
    <<storerVars, pinVars, pullVars, joinerVars, trieVars, psliceVars, metricsVars,
      feederVars, socVars>>
vars == <<netVars, connected, pushVars, handlerVars, localVars>>

\* store.valid as a loop that accepts only when every validator accepts
RECURSIVE valid_all(_, _)
valid_all(vs, ch) ==
    IF vs = <<>> THEN TRUE
    ELSE Validate(Head(vs), ch) /\ valid_all(Tail(vs), ch)

\* store.valid: true as soon as one registered validator accepts
RECURSIVE valid(_, _)
valid(vs, ch) ==
    IF vs = <<>> THEN FALSE
    ELSE IF Validate(Head(vs), ch) THEN TRUE
    ELSE valid(Tail(vs), ch)

\* the condition of store.Get under which the recovery hook is started,
\* without the test of the targets
UseRecovery_noTargets(cb, targets) == cb

\* the condition of store.Get under which the recovery hook is started
UseRecovery(cb, targets) == cb /\ targets

\* the mode store.Get stores a retrieved chunk under, mistaken for upload
RetrievePutMode_upload == "ModePutUpload"

\* the mode store.Get stores a retrieved chunk under
RetrievePutMode == "ModePutRequest"

NoCall == [op |-> "none", addr |-> 0, targets |-> FALSE, rdata |-> NoData,
           miss |-> FALSE, retrieved |-> FALSE, hook |-> FALSE,
           put |-> "none", putMode |-> "none", chs |-> <<>>,
           ch |-> NoChunk, err |-> "nil"]

\* the outcomes of retrieval.RetrieveChunk: an error or the data of a peer
RetrieveOutcomes ==
    {[err |-> "ErrRetrieve", data |-> NoData]}
        \cup {[err |-> "nil", data |-> d] : d \in Datas}

\* store.Get: the new state of the wrapped store and the record of the call
Get(m, vs, cb, addr, targets, rres) ==
    LET g == MockGet(m, addr)
        call == [NoCall EXCEPT !.op = "Get", !.addr = addr, !.targets = targets]
    IN
    IF g.err = "nil"
    THEN [m |-> m, call |-> [call EXCEPT !.ch = g.ch]]
    ELSE IF g.err # "ErrNotFound"
    THEN [m |-> m, call |-> [call EXCEPT !.err = "netstore get"]]
    ELSE LET c1 == [call EXCEPT !.miss = TRUE, !.retrieved = TRUE,
                                !.rdata = rres.data] IN
         IF rres.err # "nil"
         THEN IF UseRecovery(cb, targets)
              THEN [m |-> m, call |-> [c1 EXCEPT !.hook = TRUE,
                                                 !.err = "ErrRecoveryAttempt"]]
              ELSE [m |-> m, call |-> [c1 EXCEPT !.err = "netstore retrieve chunk"]]
         ELSE LET ch == NewChunk(addr, rres.data) IN
              IF ~valid(vs, ch)
              THEN [m |-> m, call |-> [c1 EXCEPT !.err = "ErrInvalidChunk"]]
              ELSE LET p == MockPut(m, RetrievePutMode, <<ch>>)
                       c2 == [c1 EXCEPT !.putMode = RetrievePutMode]
                   IN
                   IF p.err # "nil"
                   THEN [m |-> p.m,
                         call |-> [c2 EXCEPT !.put = p.err,
                                             !.err = "netstore retrieve put"]]
                   ELSE [m |-> p.m,
                         call |-> [c2 EXCEPT !.put = "ok", !.ch = ch]]

\* store.Put as one loop that validates a chunk and hands it to the wrapped
\* store before it looks at the next chunk
RECURSIVE PutEach(_, _, _, _)
PutEach(m, vs, mode, chs) ==
    IF chs = <<>> THEN [m |-> m, put |-> "none", err |-> "nil"]
    ELSE IF ~valid(vs, Head(chs))
    THEN [m |-> m, put |-> "none", err |-> "ErrInvalidChunk"]
    ELSE LET p == MockPut(m, mode, <<Head(chs)>>) IN
         IF p.err # "nil" THEN [m |-> p.m, put |-> p.err, err |-> p.err]
         ELSE LET r == PutEach(p.m, vs, mode, Tail(chs)) IN
              [r EXCEPT !.put = IF @ = "none" THEN "ok" ELSE @]

Put_each(m, vs, mode, chs) ==
    LET r == PutEach(m, vs, mode, chs) IN
    [m |-> r.m,
     call |-> [NoCall EXCEPT !.op = "Put", !.chs = chs, !.putMode = mode,
                             !.put = r.put, !.err = r.err]]

\* store.Put: every chunk is validated before the wrapped store is called
Put(m, vs, mode, chs) ==
    LET call == [NoCall EXCEPT !.op = "Put", !.chs = chs] IN
    IF \E i \in 1..Len(chs) : ~valid(vs, chs[i])
    THEN [m |-> m, call |-> [call EXCEPT !.err = "ErrInvalidChunk"]]
    ELSE LET p == MockPut(m, mode, chs) IN
         [m |-> p.m,
          call |-> [call EXCEPT !.putMode = mode,
                                !.put = IF p.err = "nil" THEN "ok" ELSE p.err,
                                !.err = p.err]]

\* the validators given to New: none, one, or both kinds in either order
ValidatorLists ==
    {<<>>, <<"content">>, <<"mock">>, <<"content", "mock">>, <<"mock", "content">>}

ChunkLists ==
    {<<>>} \cup {<<c>> : c \in Addrs \X Datas}
           \cup {<<c, d>> : c \in Addrs \X Datas, d \in Addrs \X Datas}

\* store.WithRecoveryCallback
WithRecoveryCallback ==
    /\ nsCallback' = TRUE
    /\ nsLast' = [NoCall EXCEPT !.op = "WithRecoveryCallback"]
    /\ UNCHANGED <<nsStore, nsValidators, nsHooks, pushVars, connected, handlerVars, localVars>>

NetstoreGet ==
    \E addr \in Addrs, targets \in BOOLEAN, rres \in RetrieveOutcomes :
        LET r == Get(nsStore, nsValidators, nsCallback, addr, targets, rres) IN
        /\ r.call.hook => nsHooks < MaxPending
        /\ nsStore' = r.m
        /\ nsLast' = r.call
        /\ nsHooks' = IF r.call.hook THEN nsHooks + 1 ELSE nsHooks
        /\ UNCHANGED <<nsValidators, nsCallback, pushVars, connected, handlerVars, localVars>>

NetstorePut ==
    \E mode \in Modes, chs \in ChunkLists :
        LET r == Put(nsStore, nsValidators, mode, chs) IN
        /\ nsStore' = r.m
        /\ nsLast' = r.call
        /\ UNCHANGED <<nsValidators, nsCallback, nsHooks, pushVars, connected, handlerVars, localVars>>

\* the goroutine started by "go s.recoveryCallback(ctx, addr)" runs
RecoveryCallbackRun ==
    /\ nsHooks > 0
    /\ nsHooks' = nsHooks - 1
    /\ nsLast' = [NoCall EXCEPT !.op = "recoveryCallback"]
    /\ UNCHANGED <<nsStore, nsValidators, nsCallback, pushVars, connected, handlerVars, localVars>>

NextNet ==
    \/ WithRecoveryCallback
    \/ NetstoreGet
    \/ NetstorePut
    \/ RecoveryCallbackRun

(***************************************************************************)
(* Push-sync: PushChunkToClosest.                                          *)
(***************************************************************************)
maxPeers == 5
\* time.Minute, in seconds
blocklistDuration == 60

Peers == 1..NumPeers
\* swarm.Address{}, the zero address
ZeroAddress == 0 - 1
\* the overlay address of the node itself
BaseAddr == 0

\* pricer.PeerPrice and pricer.Price: the price of a chunk grows with the
\* distance between the chunk and the peer (the node itself for Price)
PeerPrice(peer, addr) == Xor(peer, addr) + 1
Price(addr) == Xor(BaseAddr, addr) + 1

\* a call that succeeded, with its peer and its price, duration or address
Ev(e, p, v) == [ev |-> e, peer |-> p, val |-> v, err |-> "nil"]
\* a call that failed with error x
ErrEv(e, p, x) == [ev |-> e, peer |-> p, val |-> 0, err |-> x]
NoErr == <<"nil">>
NoPush == [pc |-> "idle", i |-> 0, skipPeers |-> <<>>, lastErr |-> NoErr,
           peer |-> ZeroAddress, peerErr |-> "nil", receiptPrice |-> 0, receipt |-> ZeroAddress,
           defers |-> <<>>, res |-> "none", resAddr |-> ZeroAddress,
           err |-> NoErr]

\* the order in which EachPeerRev hands the connected peers to its callback
RECURSIVE PeerSeq(_)
PeerSeq(S) ==
    IF S = {} THEN <<>>
    ELSE LET p == CHOOSE x \in S : \A y \in S : x <= y IN
         <<p>> \o PeerSeq(S \ {p})

InSeq(x, seq) == \E k \in 1..Len(seq) : seq[k] = x

\* a callback that keeps the first peer outside skipPeers and never compares
RECURSIVE closestPeerLoop_first(_, _, _, _)
closestPeerLoop_first(addr, skipPeers, peers, closest) ==
    IF peers = <<>> THEN closest
    ELSE LET peer == Head(peers) IN
         IF InSeq(peer, skipPeers) \/ closest # ZeroAddress
         THEN closestPeerLoop_first(addr, skipPeers, Tail(peers), closest)
         ELSE closestPeerLoop_first(addr, skipPeers, Tail(peers), peer)

\* the callback of closestPeer, applied to the peers in turn
RECURSIVE closestPeerLoop(_, _, _, _)
closestPeerLoop(addr, skipPeers, peers, closest) ==
    IF peers = <<>> THEN closest
    ELSE LET peer == Head(peers) IN
         IF InSeq(peer, skipPeers)
         THEN closestPeerLoop(addr, skipPeers, Tail(peers), closest)
         ELSE IF closest = ZeroAddress
         THEN closestPeerLoop(addr, skipPeers, Tail(peers), peer)
         ELSE IF DistanceCmp(addr, closest, peer) = 0 - 1
         THEN closestPeerLoop(addr, skipPeers, Tail(peers), peer)
         ELSE closestPeerLoop(addr, skipPeers, Tail(peers), closest)

\* PushSync.closestPeer with a callback that does not look at skipPeers
closestPeer_noSkip(conn, addr, skipPeers) ==
    LET closest == closestPeerLoop(addr, <<>>, PeerSeq(conn), ZeroAddress) IN
    IF closest = ZeroAddress
    THEN [peer |-> ZeroAddress, err |-> "ErrNotFound"]
    ELSE [peer |-> closest, err |-> "nil"]

\* PushSync.closestPeer
closestPeer(conn, addr, skipPeers) ==
    LET closest == closestPeerLoop(addr, skipPeers, PeerSeq(conn), ZeroAddress) IN
    IF closest = ZeroAddress
    THEN [peer |-> ZeroAddress, err |-> "ErrNotFound"]
    ELSE [peer |-> closest, err |-> "nil"]

\* topology.ClosestPeer: the connected peer closest to addr, ErrWantSelf
\* when the node itself is closer than every peer, ErrNotFound without
\* peers; it fails with no other error, so that a caller's branch for other
\* errors is not taken
ClosestPeer(conn, addr) ==
    LET r == closestPeer(conn, addr, <<>>) IN
    IF r.err # "nil" THEN r
    ELSE IF DistanceCmp(addr, BaseAddr, r.peer) = 1
    THEN [peer |-> ZeroAddress, err |-> "ErrWantSelf"]
    ELSE r

\* the deferred calls run when the function returns, last deferred first
RECURSIVE RunDefers(_)
RunDefers(defers) ==
    IF defers = <<>> THEN <<>>
    ELSE <<defers[Len(defers)]>> \o RunDefers(SubSeq(defers, 1, Len(defers) - 1))

\* "return nil, err"
ReturnErr(p, e) == [p EXCEPT !.pc = "return", !.res = "error", !.err = e]

\* "continue" after a failed attempt
Continue(p, e) == [p EXCEPT !.pc = "loop", !.i = @ + 1, !.lastErr = e]

StreamErrors == {"DeadlineExceeded", "ErrStream"}

\* the receipt returned when the node itself is the closest, carrying the
\* node's own address
SelfReceipt_ownAddress(p, ch) ==
    [p EXCEPT !.pc = "return", !.res = "receipt", !.resAddr = BaseAddr]

\* the receipt returned when the node itself is the closest
SelfReceipt(p, ch) ==
    [p EXCEPT !.pc = "return", !.res = "receipt", !.resAddr = ch]

\* the end of the loop, returning ErrNotFound whatever the last error was
Exhausted_notFound(p) == ReturnErr(p, <<"ErrNotFound">>)

\* the end of the loop: the last error, or ErrNotFound when there is none
Exhausted(p) ==
    IF p.lastErr # NoErr
    THEN ReturnErr(p, p.lastErr)
    ELSE ReturnErr(p, <<"ErrNotFound">>)

\* the sets of peers the topology is connected to at the time of the call:
\* none, or the first n peers
Topologies == {1..n : n \in 0..NumPeers}

\* the call of PushChunkToClosest(ctx, ch)
PushCall ==
    /\ push.pc = "idle"
    /\ \E ch \in Addrs, conn \in Topologies :
        /\ psChunk' = ch
        /\ connected' = conn
    /\ push' = [push EXCEPT !.pc = "loop"]
    /\ UNCHANGED <<psEvents, tagSent, netVars, handlerVars, localVars>>

\* the loop's select: the context is done
PushCtxDone ==
    /\ push.pc = "loop"
    /\ push.i < maxPeers
    /\ push' = ReturnErr(push, <<"context canceled">>)
    /\ UNCHANGED <<connected, psChunk, psEvents, tagSent, netVars, handlerVars, localVars>>

\* t.Inc(tags.StateSent) on the tag of the chunk, when there is one
TagOutcomes == {"notag", "ok", "err"}

\* the first iteration: peerSuggester.ClosestPeer
PushFirstPeer ==
    /\ push.pc = "loop"
    /\ push.i = 0
    /\ LET r == ClosestPeer(connected, psChunk) IN
       \/ /\ r.err = "ErrNotFound"
          /\ push' = [push EXCEPT !.i = @ + 1, !.peerErr = r.err]
          /\ UNCHANGED <<psEvents, tagSent>>
       \/ /\ r.err = "ErrWantSelf"
          /\ \E t \in TagOutcomes :
               \/ /\ t = "err"
                  /\ push' = ReturnErr([push EXCEPT !.peerErr = r.err], <<"tag inc">>)
                  /\ psEvents' = Append(psEvents, ErrEv("TagIncErr", ZeroAddress, "ErrTag"))
                  /\ UNCHANGED tagSent
               \/ /\ t # "err"
                  /\ push' = SelfReceipt([push EXCEPT !.peerErr = r.err], psChunk)
                  /\ tagSent' = IF t = "ok" THEN tagSent + 1 ELSE tagSent
                  /\ psEvents' = IF t = "ok"
                                 THEN Append(psEvents, Ev("TagInc", ZeroAddress, 0))
                                 ELSE psEvents
       \/ /\ r.err = "nil"
          /\ push' = [push EXCEPT !.peer = r.peer, !.peerErr = r.err,
                                  !.skipPeers = Append(@, r.peer),
                                  !.pc = "reserve"]
          /\ UNCHANGED <<psEvents, tagSent>>
    /\ UNCHANGED <<connected, psChunk, netVars, handlerVars, localVars>>

\* a later iteration: ps.closestPeer(ch.Address(), skipPeers)
PushNextPeer ==
    /\ push.pc = "loop"
    /\ push.i > 0
    /\ push.i < maxPeers
    /\ LET r == closestPeer(connected, psChunk, push.skipPeers) IN
       IF r.err # "nil"
       THEN push' = ReturnErr([push EXCEPT !.peerErr = r.err],
                              <<"closest peer", r.err>>)
       ELSE push' = [push EXCEPT !.peer = r.peer, !.peerErr = r.err,
                                 !.skipPeers = Append(@, r.peer),
                                 !.pc = "reserve"]
    /\ UNCHANGED <<connected, psChunk, psEvents, tagSent, netVars, handlerVars, localVars>>

\* a Reserve whose Release is not deferred
PushReserve_noDefer ==
    /\ push.pc = "reserve"
    /\ LET receiptPrice == PeerPrice(push.peer, psChunk) IN
       \/ /\ push' = ReturnErr([push EXCEPT !.receiptPrice = receiptPrice],
                               <<"reserve balance", push.peer>>)
          /\ psEvents' = Append(psEvents, ErrEv("ReserveErr", push.peer, "ErrReserve"))
       \/ /\ push' = [push EXCEPT !.receiptPrice = receiptPrice,
                                  !.pc = "newStream"]
          /\ psEvents' = Append(psEvents, Ev("Reserve", push.peer, receiptPrice))
    /\ UNCHANGED <<connected, psChunk, tagSent, netVars, handlerVars, localVars>>

\* pricer.PeerPrice, accounting.Reserve and the deferred Release
PushReserve ==
    /\ push.pc = "reserve"
    /\ LET receiptPrice == PeerPrice(push.peer, psChunk) IN
       \/ /\ push' = ReturnErr([push EXCEPT !.receiptPrice = receiptPrice],
                               <<"reserve balance", push.peer>>)
          /\ psEvents' = Append(psEvents, ErrEv("ReserveErr", push.peer, "ErrReserve"))
       \/ /\ push' = [push EXCEPT !.receiptPrice = receiptPrice,
                                  !.defers = Append(@, Ev("Release", push.peer, receiptPrice)),
                                  !.pc = "newStream"]
          /\ psEvents' = Append(psEvents, Ev("Reserve", push.peer, receiptPrice))
    /\ UNCHANGED <<connected, psChunk, tagSent, netVars, handlerVars, localVars>>

\* streamer.NewStream and the deferred FullClose
PushNewStream ==
    /\ push.pc = "newStream"
    /\ \/ \E e \in StreamErrors :
          /\ push' = Continue(push, <<"new stream", push.peer, e>>)
          /\ psEvents' = Append(psEvents, ErrEv("NewStreamErr", push.peer, e))
       \/ /\ push' = [push EXCEPT !.defers = Append(@, Ev("FullClose", push.peer, 0)),
                                  !.pc = "send"]
          /\ psEvents' = Append(psEvents, Ev("NewStream", push.peer, 0))
    /\ UNCHANGED <<connected, psChunk, tagSent, netVars, handlerVars, localVars>>

\* the calls made when sending or receiving on the stream failed with e:
\* the stream is reset and the peer blocklisted, whatever the error
StreamFailed_blockAll(peer, e) ==
    <<Ev("Reset", peer, 0), Ev("Blocklist", peer, blocklistDuration)>>

\* the calls made when sending or receiving on the stream failed with e:
\* the stream is reset, and the peer blocklisted after a deadline
StreamFailed(peer, e) ==
    IF e = "DeadlineExceeded"
    THEN <<Ev("Reset", peer, 0), Ev("Blocklist", peer, blocklistDuration)>>
    ELSE <<Ev("Reset", peer, 0)>>

\* ps.sendChunkDelivery
PushSend ==
    /\ push.pc = "send"
    /\ \/ \E e \in StreamErrors :
            /\ push' = Continue(push, <<"chunk deliver", push.peer, e>>)
            /\ psEvents' = psEvents \o <<ErrEv("SendErr", push.peer, e)>>
                                    \o StreamFailed(push.peer, e)
       \/ /\ push' = [push EXCEPT !.pc = "recv"]
          /\ psEvents' = Append(psEvents, Ev("SendDelivery", push.peer, 0))
    /\ UNCHANGED <<connected, psChunk, tagSent, netVars, handlerVars, localVars>>

\* ps.receiveReceipt
PushRecv ==
    /\ push.pc = "recv"
    /\ \/ \E e \in StreamErrors :
            /\ push' = Continue(push, <<"receive receipt", push.peer, e>>)
            /\ psEvents' = psEvents \o <<ErrEv("RecvErr", push.peer, e)>>
                                    \o StreamFailed(push.peer, e)
       \/ \E ra \in Addrs :
            /\ push' = [push EXCEPT !.receipt = ra, !.pc = "tag"]
            /\ psEvents' = Append(psEvents, Ev("Receipt", push.peer, ra))
    /\ UNCHANGED <<connected, psChunk, tagSent, netVars, handlerVars, localVars>>

\* tagger.Get and t.Inc(tags.StateSent) after the receipt was received
PushTag ==
    /\ push.pc = "tag"
    /\ \E t \in TagOutcomes :
         \/ /\ t = "err"
            /\ push' = ReturnErr(push, <<"tag inc">>)
            /\ psEvents' = Append(psEvents, ErrEv("TagIncErr", push.peer, "ErrTag"))
            /\ UNCHANGED tagSent
         \/ /\ t # "err"
            /\ push' = [push EXCEPT !.pc = "check"]
            /\ tagSent' = IF t = "ok" THEN tagSent + 1 ELSE tagSent
            /\ psEvents' = IF t = "ok"
                           THEN Append(psEvents, Ev("TagInc", push.peer, 0))
                           ELSE psEvents
    /\ UNCHANGED <<connected, psChunk, netVars, handlerVars, localVars>>

\* the check of the receipt, taking a wrong receipt for a failed attempt
PushCheck_continue ==
    /\ push.pc = "check"
    /\ IF push.receipt # psChunk
       THEN /\ push' = Continue(push, <<"invalid receipt", push.peer>>)
            /\ psEvents' = Append(psEvents, Ev("Reset", push.peer, 0))
       ELSE /\ push' = [push EXCEPT !.pc = "credit"]
            /\ UNCHANGED psEvents
    /\ UNCHANGED <<connected, psChunk, tagSent, netVars, handlerVars, localVars>>

\* the check of the receipt: its address must be the chunk's
PushCheck ==
    /\ push.pc = "check"
    /\ IF push.receipt # psChunk
       THEN /\ push' = ReturnErr(push, <<"invalid receipt", push.peer>>)
            /\ psEvents' = Append(psEvents, Ev("Reset", push.peer, 0))
       ELSE /\ push' = [push EXCEPT !.pc = "credit"]
            /\ UNCHANGED psEvents
    /\ UNCHANGED <<connected, psChunk, tagSent, netVars, handlerVars, localVars>>

\* accounting.Credit with the price of the chunk instead of the reserved one
PushCredit_price ==
    /\ push.pc = "credit"
    /\ \/ /\ push' = ReturnErr(push, <<"credit", push.peer>>)
          /\ psEvents' = Append(psEvents, ErrEv("CreditErr", push.peer, "ErrCredit"))
       \/ /\ push' = [push EXCEPT !.pc = "return", !.res = "receipt",
                                  !.resAddr = push.receipt]
          /\ psEvents' = Append(psEvents, Ev("Credit", push.peer, Price(psChunk)))
    /\ UNCHANGED <<connected, psChunk, tagSent, netVars, handlerVars, localVars>>

\* accounting.Credit and the return of the receipt
PushCredit ==
    /\ push.pc = "credit"
    /\ \/ /\ push' = ReturnErr(push, <<"credit", push.peer>>)
          /\ psEvents' = Append(psEvents, ErrEv("CreditErr", push.peer, "ErrCredit"))
       \/ /\ push' = [push EXCEPT !.pc = "return", !.res = "receipt",
                                  !.resAddr = push.receipt]
          /\ psEvents' = Append(psEvents, Ev("Credit", push.peer, push.receiptPrice))
    /\ UNCHANGED <<connected, psChunk, tagSent, netVars, handlerVars, localVars>>

\* the loop ended after maxPeers iterations
PushExhausted ==
    /\ push.pc = "loop"
    /\ push.i >= maxPeers
    /\ push' = Exhausted(push)
    /\ UNCHANGED <<connected, psChunk, psEvents, tagSent, netVars, handlerVars, localVars>>

\* the function returns: the deferred calls run
PushReturn ==
    /\ push.pc = "return"
    /\ push' = [push EXCEPT !.pc = "done", !.defers = <<>>]
    /\ psEvents' = psEvents \o RunDefers(push.defers)
    /\ UNCHANGED <<connected, psChunk, tagSent, netVars, handlerVars, localVars>>

NextPush ==
    \/ PushCall
    \/ PushCtxDone
    \/ PushFirstPeer
    \/ PushNextPeer
    \/ PushReserve
    \/ PushNewStream
    \/ PushSend
    \/ PushRecv
    \/ PushTag
    \/ PushCheck
    \/ PushCredit
    \/ PushExhausted
    \/ PushReturn

(***************************************************************************)
(* Push-sync: the handler of an inbound stream.                            *)
(***************************************************************************)
NoHandler == [pc |-> "idle", p |-> ZeroAddress, validator |-> NoValidator,
              chunk |-> NoChunk, callback |-> FALSE, peer |-> ZeroAddress,
              receiptPrice |-> 0, receipt |-> ZeroAddress, defers |-> <<>>,
              err |-> NoErr]

\* "return err"
HReturn(h, e) == [h EXCEPT !.pc = "return", !.err = e]

\* the deferred close of the inbound stream, taking every return for a
\* return without error
InboundDefer_close(err) == Ev("InboundFullClose", ZeroAddress, 0)

\* the deferred close of the inbound stream: Reset on an error, FullClose
\* without
InboundDefer(err) ==
    IF err # NoErr
    THEN Ev("InboundReset", ZeroAddress, 0)
    ELSE Ev("InboundFullClose", ZeroAddress, 0)

\* the deferred close of the outbound stream
OutboundDefer(peer, err) ==
    IF err # NoErr
    THEN Ev("Reset", peer, 0)
    ELSE Ev("FullClose", peer, 0)

\* the deferred calls of the handler, last deferred first; the close of the
\* inbound stream was deferred first
RECURSIVE HandlerDefers(_, _)
HandlerDefers(defers, err) ==
    IF defers = <<>> THEN <<InboundDefer(err)>>
    ELSE LET d == defers[Len(defers)]
             rest == HandlerDefers(SubSeq(defers, 1, Len(defers) - 1), err)
         IN IF d.ev = "Outbound"
            THEN <<OutboundDefer(d.peer, err)>> \o rest
            ELSE <<d>> \o rest

\* a peer opens a push-sync stream to the node; the topology may not know
\* the peer yet
HandlerCall ==
    /\ handler.pc = "idle"
    /\ \E conn \in Topologies :
         \E p \in Peers, v \in ValidatorKinds :
            /\ connected' = conn
            /\ handler' = [handler EXCEPT !.pc = "read", !.p = p, !.validator = v]
    /\ UNCHANGED <<hEvents, netVars, pushVars, localVars>>

\* r.ReadMsgWithContext(ctx, &ch)
HandlerRead ==
    /\ handler.pc = "read"
    /\ \/ /\ handler' = HReturn(handler, <<"pushsync read delivery">>)
          /\ hEvents' = Append(hEvents, ErrEv("ReadDelivery", handler.p, "ErrStream"))
       \/ \E a \in Addrs, d \in Datas :
          /\ handler' = [handler EXCEPT !.pc = "validate", !.chunk = NewChunk(a, d)]
          /\ hEvents' = Append(hEvents, Ev("ReadDelivery", handler.p, a))
    /\ UNCHANGED <<connected, netVars, pushVars, localVars>>

\* ps.validator.ValidWithCallback(chunk)
HandlerValidate ==
    /\ handler.pc = "validate"
    /\ IF ~Validate(handler.validator, handler.chunk)
       THEN /\ handler' = HReturn(handler, <<"ErrInvalidChunk">>)
            /\ hEvents' = Append(hEvents, ErrEv("Validate", handler.p, "ErrInvalidChunk"))
       ELSE /\ \E cb \in BOOLEAN :
                 handler' = [handler EXCEPT !.pc = "closest", !.callback = cb]
            /\ UNCHANGED hEvents
    /\ UNCHANGED <<connected, netVars, pushVars, localVars>>

\* ps.peerSuggester.ClosestPeer(chunk.Address()) and the choice between
\* storing the chunk and forwarding it
HandlerClosest ==
    /\ handler.pc = "closest"
    /\ LET r == ClosestPeer(connected, handler.chunk[1]) IN
       IF r.err = "ErrWantSelf"
       THEN /\ handler' = [handler EXCEPT !.pc = "put"]
            /\ hEvents' = IF handler.callback
                          THEN Append(hEvents, Ev("GoCallback", ZeroAddress, 0))
                          ELSE hEvents
       ELSE IF r.err # "nil"
       THEN /\ handler' = HReturn(handler, <<r.err>>)
            /\ hEvents' = Append(hEvents, ErrEv("ClosestPeer", ZeroAddress, r.err))
       ELSE IF handler.p = r.peer
       THEN /\ handler' = [handler EXCEPT !.pc = "put", !.peer = r.peer]
            /\ UNCHANGED hEvents
       ELSE /\ handler' = [handler EXCEPT !.pc = "reserve", !.peer = r.peer]
            /\ UNCHANGED hEvents
    /\ UNCHANGED <<connected, netVars, pushVars, localVars>>

\* handleDeliveryResponse going on to the receipt after a failed Put
HandlerPut_ignoreErr ==
    /\ handler.pc = "put"
    /\ \/ /\ handler' = [handler EXCEPT !.pc = "sendReceipt"]
          /\ hEvents' = Append(hEvents, ErrEv("Put", ZeroAddress, "ErrStore"))
       \/ /\ handler' = [handler EXCEPT !.pc = "sendReceipt"]
          /\ hEvents' = Append(hEvents, Ev("Put", ZeroAddress, handler.chunk[1]))
    /\ UNCHANGED <<connected, netVars, pushVars, localVars>>

\* handleDeliveryResponse: ps.storer.Put(ctx, storage.ModePutSync, chunk)
HandlerPut ==
    /\ handler.pc = "put"
    /\ \/ /\ handler' = HReturn(handler, <<"chunk store">>)
          /\ hEvents' = Append(hEvents, ErrEv("Put", ZeroAddress, "ErrStore"))
       \/ /\ handler' = [handler EXCEPT !.pc = "sendReceipt"]
          /\ hEvents' = Append(hEvents, Ev("Put", ZeroAddress, handler.chunk[1]))
    /\ UNCHANGED <<connected, netVars, pushVars, localVars>>

\* handleDeliveryResponse: ps.sendReceipt(ctx, w, receipt)
HandlerSendReceipt ==
    /\ handler.pc = "sendReceipt"
    /\ \/ \E e \in StreamErrors :
          /\ handler' = HReturn(handler, <<"send receipt", handler.p, e>>)
          /\ hEvents' = Append(hEvents, ErrEv("SendReceipt", handler.p, e))
       \/ /\ handler' = [handler EXCEPT !.pc = "debit"]
          /\ hEvents' = Append(hEvents, Ev("SendReceipt", handler.p, handler.chunk[1]))
    /\ UNCHANGED <<connected, netVars, pushVars, localVars>>

\* ps.accounting.Debit(p.Address, ps.pricer.Price(chunk.Address())), the last
\* call of handleDeliveryResponse and of the forwarding handler
HandlerDebit ==
    /\ handler.pc = "debit"
    /\ \/ /\ handler' = HReturn(handler, <<"debit", handler.p>>)
          /\ hEvents' = Append(hEvents, ErrEv("Debit", handler.p, "ErrDebit"))
       \/ /\ handler' = HReturn(handler, NoErr)
          /\ hEvents' = Append(hEvents, Ev("Debit", handler.p, Price(handler.chunk[1])))
    /\ UNCHANGED <<connected, netVars, pushVars, localVars>>

\* pricer.PeerPrice, accounting.Reserve and the deferred Release
HandlerReserve ==
    /\ handler.pc = "reserve"
    /\ LET receiptPrice == PeerPrice(handler.peer, handler.chunk[1]) IN
       \/ /\ handler' = HReturn([handler EXCEPT !.receiptPrice = receiptPrice],
                                <<"reserve balance", handler.peer>>)
          /\ hEvents' = Append(hEvents, ErrEv("Reserve", handler.peer, "ErrReserve"))
       \/ /\ handler' = [handler EXCEPT
                            !.receiptPrice = receiptPrice,
                            !.defers = Append(@, Ev("Release", handler.peer, receiptPrice)),
                            !.pc = "newStream"]
          /\ hEvents' = Append(hEvents, Ev("Reserve", handler.peer, receiptPrice))
    /\ UNCHANGED <<connected, netVars, pushVars, localVars>>

\* ps.streamer.NewStream and the deferred close of the outbound stream
HandlerNewStream ==
    /\ handler.pc = "newStream"
    /\ \/ \E e \in StreamErrors :
          /\ handler' = HReturn(handler, <<"new stream", handler.peer, e>>)
          /\ hEvents' = Append(hEvents, ErrEv("NewStream", handler.peer, e))
       \/ /\ handler' = [handler EXCEPT
                            !.defers = Append(@, Ev("Outbound", handler.peer, 0)),
                            !.pc = "send"]
          /\ hEvents' = Append(hEvents, Ev("NewStream", handler.peer, 0))
    /\ UNCHANGED <<connected, netVars, pushVars, localVars>>

\* ps.sendChunkDelivery(ctx, wc, chunk)
HandlerSend ==
    /\ handler.pc = "send"
    /\ \/ \E e \in StreamErrors :
          /\ handler' = HReturn(handler, <<"forward chunk", handler.peer, e>>)
          /\ hEvents' = Append(hEvents, ErrEv("SendDelivery", handler.peer, e))
       \/ /\ handler' = [handler EXCEPT !.pc = "recv"]
          /\ hEvents' = Append(hEvents, Ev("SendDelivery", handler.peer, handler.chunk[1]))
    /\ UNCHANGED <<connected, netVars, pushVars, localVars>>

\* ps.receiveReceipt(ctx, rc)
HandlerRecv ==
    /\ handler.pc = "recv"
    /\ \/ \E e \in StreamErrors :
          /\ handler' = HReturn(handler, <<"receive receipt", handler.peer, e>>)
          /\ hEvents' = Append(hEvents, ErrEv("Receipt", handler.peer, e))
       \/ \E ra \in Addrs :
          /\ handler' = [handler EXCEPT !.pc = "check", !.receipt = ra]
          /\ hEvents' = Append(hEvents, Ev("Receipt", handler.peer, ra))
    /\ UNCHANGED <<connected, netVars, pushVars, localVars>>

\* the handler taking every receipt for a receipt of the chunk
HandlerCheck_accept ==
    /\ handler.pc = "check"
    /\ handler' = [handler EXCEPT !.pc = "credit"]
    /\ UNCHANGED hEvents
    /\ UNCHANGED <<connected, netVars, pushVars, localVars>>

\* the check of the receipt's address
HandlerCheck ==
    /\ handler.pc = "check"
    /\ IF handler.chunk[1] # handler.receipt
       THEN /\ handler' = HReturn(handler, <<"invalid receipt", handler.peer>>)
            /\ hEvents' = Append(hEvents, ErrEv("CheckReceipt", handler.peer, "invalid receipt"))
       ELSE /\ handler' = [handler EXCEPT !.pc = "credit"]
            /\ UNCHANGED hEvents
    /\ UNCHANGED <<connected, netVars, pushVars, localVars>>

\* ps.accounting.Credit(peer, receiptPrice)
HandlerCredit ==
    /\ handler.pc = "credit"
    /\ \/ /\ handler' = HReturn(handler, <<"credit", handler.peer>>)
          /\ hEvents' = Append(hEvents, ErrEv("Credit", handler.peer, "ErrCredit"))
       \/ /\ handler' = [handler EXCEPT !.pc = "relay"]
          /\ hEvents' = Append(hEvents, Ev("Credit", handler.peer, handler.receiptPrice))
    /\ UNCHANGED <<connected, netVars, pushVars, localVars>>

\* ps.sendReceipt(ctx, w, &receipt): the receipt is passed back to the sender
HandlerRelay ==
    /\ handler.pc = "relay"
    /\ \/ \E e \in StreamErrors :
          /\ handler' = HReturn(handler, <<"send receipt", handler.p, e>>)
          /\ hEvents' = Append(hEvents, ErrEv("SendReceipt", handler.p, e))
       \/ /\ handler' = [handler EXCEPT !.pc = "debit"]
          /\ hEvents' = Append(hEvents, Ev("SendReceipt", handler.p, handler.receipt))
    /\ UNCHANGED <<connected, netVars, pushVars, localVars>>

\* the handler returns: the deferred calls run
HandlerReturn ==
    /\ handler.pc = "return"
    /\ handler' = [handler EXCEPT !.pc = "done", !.defers = <<>>]
    /\ hEvents' = hEvents \o HandlerDefers(handler.defers, handler.err)
    /\ UNCHANGED <<connected, netVars, pushVars, localVars>>

NextHandler ==
    \/ HandlerCall
    \/ HandlerRead
    \/ HandlerValidate
    \/ HandlerClosest
    \/ HandlerPut
    \/ HandlerSendReceipt
    \/ HandlerDebit
    \/ HandlerReserve
    \/ HandlerNewStream
    \/ HandlerSend
    \/ HandlerRecv
    \/ HandlerCheck
    \/ HandlerCredit
    \/ HandlerRelay
    \/ HandlerReturn

(***************************************************************************)
(* The MockStorer on its own: Put, Get and Has.                            *)
(***************************************************************************)
NoStorerCall == [op |-> "none", chs |-> <<>>, addr |-> 0, exist |-> <<>>,
                 ch |-> NoChunk, yes |-> FALSE, err |-> "nil"]

\* MockStorer.Put
StorerPut ==
    \E mode \in Modes, chs \in ChunkLists :
        LET r == MockPut(storer, mode, chs) IN
        /\ storer' = r.m
        /\ storerLast' = [NoStorerCall EXCEPT !.op = "Put", !.chs = chs,
                                              !.exist = r.exist, !.err = r.err]
        /\ UNCHANGED <<netVars, connected, pushVars, handlerVars, pinVars, pullVars, joinerVars, trieVars, psliceVars, metricsVars, feederVars, socVars>>

\* MockStorer.Get
StorerGet ==
    \E addr \in Addrs :
        LET r == MockGet(storer, addr) IN
        /\ storerLast' = [NoStorerCall EXCEPT !.op = "Get", !.addr = addr,
                                              !.ch = r.ch, !.err = r.err]
        /\ UNCHANGED <<storer, netVars, connected, pushVars, handlerVars, pinVars, pullVars, joinerVars, trieVars, psliceVars, metricsVars, feederVars, socVars>>

\* MockStorer.Has
StorerHas ==
    \E addr \in Addrs :
        /\ storerLast' = [NoStorerCall EXCEPT !.op = "Has", !.addr = addr,
                                              !.yes = MockHas(storer, addr)]
        /\ UNCHANGED <<storer, netVars, connected, pushVars, handlerVars, pinVars, pullVars, joinerVars, trieVars, psliceVars, metricsVars, feederVars, socVars>>

NextStorer ==
    \/ StorerPut
    \/ StorerGet
    \/ StorerHas

(***************************************************************************)
(* The MockStorer on its own: Set, PinnedChunks and PinInfo.               *)
(***************************************************************************)
\* largest pin counter an address is given
MaxPin == 2

ModesSet == {"ModeSetAccess", "ModeSetPin", "ModeSetUnpin"}
\* swarm.NewAddress([]byte{0}), the one-byte address written over the slot
\* that a removal vacates; the addresses of chunks have full length, so none
\* of them equals it
ZeroByteAddress == 0

NoSetCall == [op |-> "none", mode |-> "none", addrs |-> <<>>, panic |-> FALSE]

AddrLists == {<<>>} \cup {<<a>> : a \in Addrs} \cup {<<a, b>> : a \in Addrs, b \in Addrs}

\* the loop of Set for ModeSetPin over the pinned addresses: the counter of
\* every entry of the address is incremented
RECURSIVE PinLoop(_, _, _, _)
PinLoop(addr, pa, pc, i) ==
    IF i > Len(pa) THEN [pc |-> pc, found |-> FALSE]
    ELSE IF pa[i] = addr
    THEN [PinLoop(addr, pa, [pc EXCEPT ![i] = @ + 1], i + 1) EXCEPT !.found = TRUE]
    ELSE PinLoop(addr, pa, pc, i + 1)

\* Set for ModeSetPin and one address
Pin(addr, pa, pc) ==
    LET r == PinLoop(addr, pa, pc, 1) IN
    IF r.found THEN [pa |-> pa, pc |-> r.pc, panic |-> FALSE]
    ELSE [pa |-> Append(pa, addr), pc |-> Append(pc, 1), panic |-> FALSE]

\* copy(s[i:], s[i+1:]); s[len(s)-1] = zero; s = s[:len(s)-1], on the backing
\* array arr that holds the slice of length n
RemoveAt(arr, n, i, zero) ==
    [k \in 1..Len(arr) |->
        IF k >= i /\ k < n THEN arr[k + 1]
        ELSE IF k = n THEN zero
        ELSE arr[k]]

\* the loop of Set for ModeSetUnpin that keeps an entry whose counter reached
\* zero
RECURSIVE UnpinLoop_keepZero(_, _, _, _, _, _)
UnpinLoop_keepZero(addr, pa, pc, na, nc, i) ==
    IF i > Len(pa) THEN [pa |-> SubSeq(pa, 1, na), pc |-> SubSeq(pc, 1, nc), panic |-> FALSE]
    ELSE IF pa[i] # addr THEN UnpinLoop_keepZero(addr, pa, pc, na, nc, i + 1)
    ELSE UnpinLoop_keepZero(addr, pa, [pc EXCEPT ![i] = @ - 1], na, nc, i + 1)

\* the loop of Set for ModeSetUnpin: "for i, ad := range m.pinnedAddress"
\* runs over the length the slice had when the loop began and reads its
\* elements from the backing arrays pa and pc, of which the slices hold the
\* first na and nc elements; indexing pinnedCounter beyond its length panics
RECURSIVE UnpinLoop(_, _, _, _, _, _)
UnpinLoop(addr, pa, pc, na, nc, i) ==
    IF i > Len(pa) THEN [pa |-> SubSeq(pa, 1, na), pc |-> SubSeq(pc, 1, nc), panic |-> FALSE]
    ELSE IF pa[i] # addr THEN UnpinLoop(addr, pa, pc, na, nc, i + 1)
    ELSE IF i > nc THEN [pa |-> SubSeq(pa, 1, na), pc |-> SubSeq(pc, 1, nc), panic |-> TRUE]
    ELSE LET pc1 == [pc EXCEPT ![i] = @ - 1] IN
         IF pc1[i] = 0
         THEN UnpinLoop(addr, RemoveAt(pa, na, i, ZeroByteAddress),
                        RemoveAt(pc1, nc, i, 0), na - 1, nc - 1, i + 1)
         ELSE UnpinLoop(addr, pa, pc1, na, nc, i + 1)

\* Set for ModeSetUnpin and one address
Unpin(addr, pa, pc) == UnpinLoop(addr, pa, pc, Len(pa), Len(pc), 1)

\* MockStorer.Set: the loop over addrs
RECURSIVE SetLoop(_, _, _, _, _)
SetLoop(mode, addrs, ms, pa, pc) ==
    IF addrs = <<>> THEN [modeSet |-> ms, pa |-> pa, pc |-> pc, panic |-> FALSE]
    ELSE LET addr == Head(addrs)
             ms1 == [ms EXCEPT ![addr] = mode]
             r == IF mode = "ModeSetPin" THEN Pin(addr, pa, pc)
                  ELSE IF mode = "ModeSetUnpin" THEN Unpin(addr, pa, pc)
                  ELSE [pa |-> pa, pc |-> pc, panic |-> FALSE]
         IN
         IF r.panic THEN [modeSet |-> ms1, pa |-> r.pa, pc |-> r.pc, panic |-> TRUE]
         ELSE SetLoop(mode, Tail(addrs), ms1, r.pa, r.pc)

\* MockStorer.PinnedChunks
PinnedChunks(pa, pc) == [i \in 1..Len(pa) |-> [Address |-> pa[i], PinCounter |-> pc[i]]]

\* MockStorer.PinInfo
RECURSIVE PinInfoFrom(_, _, _, _)
PinInfoFrom(address, pa, pc, i) ==
    IF i > Len(pa) THEN [count |-> 0, err |-> "ErrNotFound"]
    ELSE IF pa[i] = address THEN [count |-> pc[i], err |-> "nil"]
    ELSE PinInfoFrom(address, pa, pc, i + 1)
PinInfo(address, pa, pc) == PinInfoFrom(address, pa, pc, 1)

\* MockStorer.GetModeSet
GetModeSet(ms, addr) == ms[addr]

\* MockStorer.Set
StorerSet ==
    \E mode \in ModesSet, addrs \in AddrLists :
        \E r \in {SetLoop(mode, addrs, modeSet, pinnedAddress, pinnedCounter)} :
        /\ \A i \in 1..Len(r.pc) : r.pc[i] <= MaxPin
        /\ modeSet' = r.modeSet
        /\ pinnedAddress' = r.pa
        /\ pinnedCounter' = r.pc
        /\ pinLast' = [NoSetCall EXCEPT !.op = "Set", !.mode = mode,
                                        !.addrs = addrs, !.panic = r.panic]
        /\ UNCHANGED <<netVars, connected, pushVars, handlerVars, storerVars, pullVars, joinerVars, trieVars, psliceVars, metricsVars, feederVars, socVars>>

NextPin == StorerSet

(***************************************************************************)
(* The MockStorer on its own: SubscribePull, MorePull and Close.           *)
(***************************************************************************)
\* number of SubscribePull calls
NumSubs == 2
\* largest bin id of a descriptor
MaxBinID == 2

SubIds == 1..NumSubs
\* the value of the mutex that no goroutine holds
Unlocked == 0
BinIDs == 1..MaxBinID

\* the descriptor lists of WithSubscribePullChunks and MorePull: bin ids in
\* strictly increasing order, of at most two descriptors
DescriptorLists ==
    {<<>>} \cup {<<a>> : a \in BinIDs}
           \cup {d \in BinIDs \X BinIDs : d[1] < d[2]}

\* the largest bin id of a list, 0 for the empty list
LastBinID(d) == IF d = <<>> THEN 0 ELSE d[Len(d)]

\* a subscription: the position of its goroutine, the slice and the index of
\* its range loop, its channels and the descriptors received from c
NoSub == [pc |-> "none", items |-> <<>>, i |-> 0, done |-> FALSE,
          ctxDone |-> FALSE, c |-> "open", delivered |-> <<>>]

\* one of the cases <-done, <-ctx.Done() and <-m.quit of a select is ready
Cancelled(s) == subs[s].done \/ subs[s].ctxDone \/ quit

\* "defer close(c)" runs: the goroutine has returned
Exit(sub) == [sub EXCEPT !.pc = "exited", !.c = "closed"]

\* MockStorer.SubscribePull: the channels are made and the goroutine started;
\* the calls are numbered in their order
SubscribePull ==
    \E s \in SubIds :
        /\ pullPanic = "none"
        /\ subs[s].pc = "none"
        /\ \A t \in SubIds : t < s => subs[t].pc # "none"
        /\ subs' = [subs EXCEPT ![s].pc = "start"]
        /\ UNCHANGED <<subpull, partialInterval, pullMtx, quit, morePull, pullPanic>>
        /\ UNCHANGED <<netVars, connected, pushVars, handlerVars, storerVars, pinVars, joinerVars, trieVars, psliceVars, metricsVars, feederVars, socVars>>

\* the goroutine takes the mutex and begins its first loop over m.subpull
SubLockFirst ==
    \E s \in SubIds :
        /\ pullPanic = "none"
        /\ subs[s].pc = "start"
        /\ pullMtx = Unlocked
        /\ pullMtx' = s
        /\ subs' = [subs EXCEPT ![s].pc = "loop1", ![s].items = subpull, ![s].i = 1]
        /\ UNCHANGED <<subpull, partialInterval, quit, morePull, pullPanic>>
        /\ UNCHANGED <<netVars, connected, pushVars, handlerVars, storerVars, pinVars, joinerVars, trieVars, psliceVars, metricsVars, feederVars, socVars>>

\* "case c <- ch": the consumer receives the next descriptor
SubDeliver ==
    \E s \in SubIds :
        /\ pullPanic = "none"
        /\ subs[s].pc \in {"loop1", "loop2"}
        /\ subs[s].i <= Len(subs[s].items)
        /\ subs' = [subs EXCEPT ![s].delivered = Append(@, subs[s].items[subs[s].i]),
                                ![s].i = @ + 1]
        /\ UNCHANGED <<subpull, partialInterval, pullMtx, quit, morePull, pullPanic>>
        /\ UNCHANGED <<netVars, connected, pushVars, handlerVars, storerVars, pinVars, joinerVars, trieVars, psliceVars, metricsVars, feederVars, socVars>>

\* a cancellation case of the select of the first loop: "return", with the
\* mutex still locked
SubReturnFirst ==
    \E s \in SubIds :
        /\ pullPanic = "none"
        /\ subs[s].pc = "loop1"
        /\ subs[s].i <= Len(subs[s].items)
        /\ Cancelled(s)
        /\ subs' = [subs EXCEPT ![s] = Exit(@)]
        /\ UNCHANGED <<subpull, partialInterval, pullMtx, quit, morePull, pullPanic>>
        /\ UNCHANGED <<netVars, connected, pushVars, handlerVars, storerVars, pinVars, joinerVars, trieVars, psliceVars, metricsVars, feederVars, socVars>>

\* the first loop is over: m.mtx.Unlock(), then the wait for more chunks
\* when the storer has a partial interval
SubEndFirst ==
    \E s \in SubIds :
        /\ pullPanic = "none"
        /\ subs[s].pc = "loop1"
        /\ subs[s].i > Len(subs[s].items)
        /\ pullMtx' = Unlocked
        /\ subs' = [subs EXCEPT ![s].pc = IF partialInterval THEN "wait" ELSE "lock2"]
        /\ UNCHANGED <<subpull, partialInterval, quit, morePull, pullPanic>>
        /\ UNCHANGED <<netVars, connected, pushVars, handlerVars, storerVars, pinVars, joinerVars, trieVars, psliceVars, metricsVars, feederVars, socVars>>

\* a cancellation case of the select that waits for more chunks
SubWaitReturn ==
    \E s \in SubIds :
        /\ pullPanic = "none"
        /\ subs[s].pc = "wait"
        /\ Cancelled(s)
        /\ subs' = [subs EXCEPT ![s] = Exit(@)]
        /\ UNCHANGED <<subpull, partialInterval, pullMtx, quit, morePull, pullPanic>>
        /\ UNCHANGED <<netVars, connected, pushVars, handlerVars, storerVars, pinVars, joinerVars, trieVars, psliceVars, metricsVars, feederVars, socVars>>

\* "case <-m.morePull"
SubWaitMore ==
    \E s \in SubIds :
        /\ pullPanic = "none"
        /\ subs[s].pc = "wait"
        /\ morePull
        /\ subs' = [subs EXCEPT ![s].pc = "lock2"]
        /\ UNCHANGED <<subpull, partialInterval, pullMtx, quit, morePull, pullPanic>>
        /\ UNCHANGED <<netVars, connected, pushVars, handlerVars, storerVars, pinVars, joinerVars, trieVars, psliceVars, metricsVars, feederVars, socVars>>

\* the goroutine takes the mutex again, defers its release and begins the
\* second loop over m.subpull
SubLockSecond ==
    \E s \in SubIds :
        /\ pullPanic = "none"
        /\ subs[s].pc = "lock2"
        /\ pullMtx = Unlocked
        /\ pullMtx' = s
        /\ subs' = [subs EXCEPT ![s].pc = "loop2", ![s].items = subpull, ![s].i = 1]
        /\ UNCHANGED <<subpull, partialInterval, quit, morePull, pullPanic>>
        /\ UNCHANGED <<netVars, connected, pushVars, handlerVars, storerVars, pinVars, joinerVars, trieVars, psliceVars, metricsVars, feederVars, socVars>>

\* the second loop is over or one of its cancellation cases is taken: the
\* deferred Unlock and close(c) run
SubReturnSecond ==
    \E s \in SubIds :
        /\ pullPanic = "none"
        /\ subs[s].pc = "loop2"
        /\ (subs[s].i > Len(subs[s].items) \/ Cancelled(s))
        /\ pullMtx' = Unlocked
        /\ subs' = [subs EXCEPT ![s] = Exit(@)]
        /\ UNCHANGED <<subpull, partialInterval, quit, morePull, pullPanic>>
        /\ UNCHANGED <<netVars, connected, pushVars, handlerVars, storerVars, pinVars, joinerVars, trieVars, psliceVars, metricsVars, feederVars, socVars>>

\* the stop function returned by SubscribePull: close(done), which panics
\* when done is closed already
Stop ==
    \E s \in SubIds :
        /\ pullPanic = "none"
        /\ subs[s].pc # "none"
        /\ IF subs[s].done
           THEN pullPanic' = "stop" /\ UNCHANGED subs
           ELSE subs' = [subs EXCEPT ![s].done = TRUE] /\ UNCHANGED pullPanic
        /\ UNCHANGED <<subpull, partialInterval, pullMtx, quit, morePull>>
        /\ UNCHANGED <<netVars, connected, pushVars, handlerVars, storerVars, pinVars, joinerVars, trieVars, psliceVars, metricsVars, feederVars, socVars>>

\* the context given to SubscribePull is cancelled
CancelContext ==
    \E s \in SubIds :
        /\ pullPanic = "none"
        /\ subs[s].pc # "none"
        /\ ~subs[s].ctxDone
        /\ subs' = [subs EXCEPT ![s].ctxDone = TRUE]
        /\ UNCHANGED <<subpull, partialInterval, pullMtx, quit, morePull, pullPanic>>
        /\ UNCHANGED <<netVars, connected, pushVars, handlerVars, storerVars, pinVars, joinerVars, trieVars, psliceVars, metricsVars, feederVars, socVars>>

\* MockStorer.MorePull, with descriptors that follow those the storer has:
\* under the mutex subpull is replaced and morePull closed, which panics when
\* it is closed already
MorePull ==
    \E d \in DescriptorLists :
        /\ pullPanic = "none"
        /\ pullMtx = Unlocked
        /\ IF d = <<>> THEN TRUE ELSE d[1] > LastBinID(subpull)
        /\ subpull' = d
        /\ IF morePull
           THEN pullPanic' = "MorePull" /\ UNCHANGED morePull
           ELSE morePull' = TRUE /\ UNCHANGED pullPanic
        /\ UNCHANGED <<partialInterval, pullMtx, quit, subs>>
        /\ UNCHANGED <<netVars, connected, pushVars, handlerVars, storerVars, pinVars, joinerVars, trieVars, psliceVars, metricsVars, feederVars, socVars>>

\* MockStorer.Close: close(m.quit), which panics when it is closed already
Close ==
    /\ pullPanic = "none"
    /\ IF quit
       THEN pullPanic' = "Close" /\ UNCHANGED quit
       ELSE quit' = TRUE /\ UNCHANGED pullPanic
    /\ UNCHANGED <<subpull, partialInterval, pullMtx, morePull, subs>>
    /\ UNCHANGED <<netVars, connected, pushVars, handlerVars, storerVars, pinVars, joinerVars, trieVars, psliceVars, metricsVars, feederVars, socVars>>

NextPull ==
    \/ SubscribePull
    \/ SubLockFirst
    \/ SubDeliver
    \/ SubReturnFirst
    \/ SubEndFirst
    \/ SubWaitReturn
    \/ SubWaitMore
    \/ SubLockSecond
    \/ SubReturnSecond
    \/ Stop
    \/ CancelContext
    \/ MorePull
    \/ Close

(***************************************************************************)
(* The joiner: SimpleJoinerJob over a store that holds the chunks of one   *)
(* file.                                                                   *)
(***************************************************************************)
\* swarm.SectionSize and swarm.Branches (32 and 128 in the program), scaled
\* down; swarm.ChunkSize is their product
SectionSize == 2
Branches == 2
ChunkSize == SectionSize * Branches
\* the length of the arrays SimpleJoinerJob.cursors and SimpleJoinerJob.data
JobLevels == 9

\* byte k of the file of n bytes
FileBytes(n) == [k \in 1..n |-> k]

\* the address of the chunk at position index of level level of a trie: the
\* hash of a chunk, of SectionSize bytes, none of which is a byte of a file
ChunkAddress(level, index) ==
    [i \in 1..SectionSize |-> IF i = 1 THEN 100 + level
                              ELSE IF i = 2 THEN 100 + index
                              ELSE 0]

CeilDiv(a, b) == (a + b - 1) \div b
Min(a, b) == IF a < b THEN a ELSE b

\* the leaf chunks of a file of n bytes, in file order; the empty file has
\* one leaf without payload
LeafChunks(n) ==
    [k \in 1..(IF n = 0 THEN 1 ELSE CeilDiv(n, ChunkSize)) |->
        LET from == (k - 1) * ChunkSize + 1
            to == Min(k * ChunkSize, n)
        IN [addr |-> ChunkAddress(0, k), span |-> to - from + 1,
            payload |-> SubSeq(FileBytes(n), from, to), level |-> 0]]

RECURSIVE SumSpans(_)
SumSpans(chs) == IF chs = <<>> THEN 0 ELSE Head(chs).span + SumSpans(Tail(chs))

RECURSIVE ConcatAddrs(_)
ConcatAddrs(chs) == IF chs = <<>> THEN <<>> ELSE Head(chs).addr \o ConcatAddrs(Tail(chs))

\* the chunks of level level + 1 over the chunks of level level: every
\* Branches of them are wrapped in an inner chunk, whose span is the sum of
\* their spans and whose payload the concatenation of their addresses; a
\* single chunk left over at the end is carried up unchanged
WrapLevel(chs, level) ==
    [g \in 1..CeilDiv(Len(chs), Branches) |->
        LET members == SubSeq(chs, (g - 1) * Branches + 1, Min(g * Branches, Len(chs))) IN
        IF Len(members) = 1 THEN members[1]
        ELSE [addr |-> ChunkAddress(level + 1, g), span |-> SumSpans(members),
              payload |-> ConcatAddrs(members), level |-> level + 1]]

Range(f) == {f[x] : x \in DOMAIN f}

\* the trie of a file: its root chunk and all its chunks
RECURSIVE BuildTrie(_, _, _)
BuildTrie(chs, level, all) ==
    IF Len(chs) = 1 THEN [root |-> chs[1], chunks |-> all]
    ELSE LET up == WrapLevel(chs, level) IN
         BuildTrie(up, level + 1, all \cup Range(up))

Trie(n) == BuildTrie(LeafChunks(n), 0, Range(LeafChunks(n)))

\* floor(log_b(c)) for c >= 1
RECURSIVE FloorLog(_, _)
FloorLog(c, b) == IF c < b THEN 0 ELSE 1 + FloorLog(c \div b, b)

\* getLevelsFromLength counting the sections of l bytes, not of l - 1
getLevelsFromLength_noSub(l, sectionSize, branches) ==
    IF l = 0 THEN 0
    ELSE IF l <= sectionSize * branches THEN 1
    ELSE FloorLog(l \div sectionSize, branches) + 1

\* getLevelsFromLength
getLevelsFromLength(l, sectionSize, branches) ==
    IF l = 0 THEN 0
    ELSE IF l <= sectionSize * branches THEN 1
    ELSE FloorLog((l - 1) \div sectionSize, branches) + 1

NoJob == [spanLength |-> 0, levelCount |-> 0, readCount |-> 0,
          cursors |-> [l \in 0..(JobLevels - 1) |-> 0],
          data |-> [l \in 0..(JobLevels - 1) |-> <<>>]]
\* the goroutine: its position, the arguments of descend, the data it sends,
\* all the bytes it has sent on dataC and the error start returned
NoProd == [pc |-> "new", level |-> 0, address |-> <<>>, payload |-> <<>>,
           sent |-> <<>>, err |-> "nil"]
\* the sizes of the buffer the consumer reads into
BufSizes == {ChunkSize - 1, ChunkSize, ChunkSize + 1}

\* the lengths of the files: empty, shorter than a section, one chunk, two
\* and three levels with and without a chunk that is carried up
FileLens ==
    {0, 1, ChunkSize, ChunkSize + 1, Branches * ChunkSize,
     Branches * ChunkSize + 1, Branches * Branches * ChunkSize}

\* d[cursor:cursor+SectionSize]; beyond len(d) the expression either panics
\* or, within the capacity of the slice, yields what the array holds there
SliceOutcomes(d, cursor) ==
    IF cursor + SectionSize <= Len(d)
    THEN {[panic |-> FALSE, bytes |-> SubSeq(d, cursor + 1, cursor + SectionSize)]}
    ELSE {[panic |-> TRUE, bytes |-> <<>>],
          [panic |-> FALSE,
           bytes |-> [i \in 1..SectionSize |->
                         IF cursor + i <= Len(d) THEN d[cursor + i] ELSE 0]]}

\* store.Get
JoinerGet(store, address) ==
    IF \E ch \in store : ch.addr = address
    THEN [ch |-> CHOOSE ch \in store : ch.addr = address, err |-> "nil"]
    ELSE [ch |-> [addr |-> address, span |-> 0, payload |-> <<>>, level |-> 0],
          err |-> "ErrNotFound"]

\* NewSimpleJoinerJob: the levels are computed from the span of the root
\* chunk, the payload of the root chunk becomes the data of the last level,
\* and the goroutine is started; a span of zero indexes j.data with -1
NewSimpleJoinerJob ==
    /\ prod.pc = "new"
    /\ LET rootChunk == Trie(jFile).root
           levelCount == getLevelsFromLength(rootChunk.span, SectionSize, Branches)
       IN
       IF levelCount = 0
       THEN /\ prod' = [prod EXCEPT !.pc = "panic"]
            /\ UNCHANGED job
       ELSE /\ job' = [job EXCEPT !.spanLength = rootChunk.span,
                                  !.levelCount = levelCount,
                                  !.data[levelCount - 1] = rootChunk.payload]
            /\ prod' = [prod EXCEPT !.pc = "start"]
    /\ UNCHANGED <<jFile, jStore, jClosed, jCtxDone, reader>>
    /\ UNCHANGED <<netVars, connected, pushVars, handlerVars, storerVars, pinVars, pullVars, trieVars, psliceVars, metricsVars, feederVars, socVars>>

\* SimpleJoinerJob.start: the test of its loop and the call of descend for
\* the address at the cursor; after the loop start returns nil and the
\* goroutine ends, leaving dataC open
JoinerStart ==
    /\ prod.pc = "start"
    /\ LET level == job.levelCount - 1 IN
       IF job.cursors[level] < Len(job.data[level])
       THEN \E sl \in SliceOutcomes(job.data[level], job.cursors[level]) :
               prod' = IF sl.panic THEN [prod EXCEPT !.pc = "panic"]
                       ELSE [prod EXCEPT !.pc = "descend", !.level = level - 1,
                                         !.address = sl.bytes]
       ELSE prod' = [prod EXCEPT !.pc = "returned"]
    /\ UNCHANGED <<jFile, jStore, job, jClosed, jCtxDone, reader>>
    /\ UNCHANGED <<netVars, connected, pushVars, handlerVars, storerVars, pinVars, pullVars, trieVars, psliceVars, metricsVars, feederVars, socVars>>

\* SimpleJoinerJob.descend up to its recursive call or its send: an error of
\* Get is returned through every caller to the goroutine, which closes dataC
JoinerDescend ==
    /\ prod.pc = "descend"
    /\ LET g == JoinerGet(jStore, prod.address)
           level == prod.level
       IN
       IF g.err # "nil"
       THEN /\ prod' = [prod EXCEPT !.pc = "failed", !.err = g.err]
            /\ jClosed' = TRUE
            /\ UNCHANGED job
       ELSE IF level > 0
       THEN LET j1 == IF Len(job.data[level]) = job.cursors[level]
                      THEN [job EXCEPT !.data[level] = g.ch.payload,
                                       !.cursors[level] = 0]
                      ELSE job
            IN
            /\ job' = j1
            /\ \E sl \in SliceOutcomes(j1.data[level], j1.cursors[level]) :
                  prod' = IF sl.panic THEN [prod EXCEPT !.pc = "panic"]
                          ELSE [prod EXCEPT !.level = level - 1, !.address = sl.bytes]
            /\ UNCHANGED jClosed
       ELSE /\ prod' = [prod EXCEPT !.pc = "send", !.payload = g.ch.payload]
            /\ UNCHANGED <<job, jClosed>>
    /\ UNCHANGED <<jFile, jStore, jCtxDone, reader>>
    /\ UNCHANGED <<netVars, connected, pushVars, handlerVars, storerVars, pinVars, pullVars, trieVars, psliceVars, metricsVars, feederVars, socVars>>

\* after the send: readCount grows, every descend of a level above 0 and
\* start advance their cursors by one section
JoinerSent ==
    /\ prod.pc = "sent"
    /\ LET top == job.levelCount - 1 IN
       job' = [job EXCEPT
                 !.readCount = @ + Len(prod.payload),
                 !.cursors = [l \in 0..(JobLevels - 1) |->
                                 IF (l >= 1 /\ l < top) \/ l = top
                                 THEN job.cursors[l] + SectionSize
                                 ELSE job.cursors[l]]]
    /\ prod' = [prod EXCEPT !.pc = "start"]
    /\ UNCHANGED <<jFile, jStore, jClosed, jCtxDone, reader>>
    /\ UNCHANGED <<netVars, connected, pushVars, handlerVars, storerVars, pinVars, pullVars, trieVars, psliceVars, metricsVars, feederVars, socVars>>

\* copy(b, data)
Copy(b, data) ==
    [i \in 1..Len(b) |-> IF i <= Len(data) THEN data[i] ELSE b[i]]

\* the number Read returns for a buffer into which it copied the data, as
\* the number of bytes copied
ReadCount_copied(b, data) == Min(Len(b), Len(data))

\* the number Read returns for a buffer into which it copied the data
ReadCount(b, data) == Len(b)

\* SimpleJoinerJob.Read, "case data, ok := <-j.dataC" with ok: the send of
\* the goroutine and the receive meet; the consumer keeps b[:n]
ReadData ==
    /\ reader.pc = "open"
    /\ prod.pc = "send"
    /\ LET b == Copy(reader.b, prod.payload)
           n == ReadCount(reader.b, prod.payload)
       IN reader' = [reader EXCEPT !.b = b, !.n = n,
                                   !.out = @ \o SubSeq(b, 1, n)]
    /\ prod' = [prod EXCEPT !.pc = "sent", !.sent = @ \o prod.payload]
    /\ UNCHANGED <<jFile, jStore, job, jClosed, jCtxDone>>
    /\ UNCHANGED <<netVars, connected, pushVars, handlerVars, storerVars, pinVars, pullVars, trieVars, psliceVars, metricsVars, feederVars, socVars>>

\* SimpleJoinerJob.Read, "case data, ok := <-j.dataC" without ok
ReadEOF ==
    /\ reader.pc = "open"
    /\ jClosed
    /\ reader' = [reader EXCEPT !.pc = "done", !.n = 0, !.err = "EOF"]
    /\ UNCHANGED <<jFile, jStore, job, prod, jClosed, jCtxDone>>
    /\ UNCHANGED <<netVars, connected, pushVars, handlerVars, storerVars, pinVars, pullVars, trieVars, psliceVars, metricsVars, feederVars, socVars>>

\* SimpleJoinerJob.Read, "case <-j.ctx.Done()"
ReadCtxDone ==
    /\ reader.pc = "open"
    /\ jCtxDone
    /\ reader' = [reader EXCEPT !.pc = "done", !.n = 0, !.err = "context canceled"]
    /\ UNCHANGED <<jFile, jStore, job, prod, jClosed, jCtxDone>>
    /\ UNCHANGED <<netVars, connected, pushVars, handlerVars, storerVars, pinVars, pullVars, trieVars, psliceVars, metricsVars, feederVars, socVars>>

\* the context of the job is cancelled
JoinerCancel ==
    /\ prod.pc # "new"
    /\ ~jCtxDone
    /\ jCtxDone' = TRUE
    /\ UNCHANGED <<jFile, jStore, job, prod, jClosed, reader>>
    /\ UNCHANGED <<netVars, connected, pushVars, handlerVars, storerVars, pinVars, pullVars, trieVars, psliceVars, metricsVars, feederVars, socVars>>

NextJoiner ==
    \/ NewSimpleJoinerJob
    \/ JoinerStart
    \/ JoinerDescend
    \/ JoinerSent
    \/ ReadData
    \/ ReadEOF
    \/ ReadCtxDone
    \/ JoinerCancel

(***************************************************************************)
(* The hash-trie writer of the file pipeline, behind the BMT writer and    *)
(* the store writer.                                                       *)
(***************************************************************************)
\* the branching of the trie, as in TestOneLevel
TrieBranching == 2
\* the highest level of the trie (8 in the program), scaled down
TrieMaxLevel == 4
\* largest number of ChainWrite calls
MaxWrites == 9
\* the spans of the written records
Spans == {1, 2}

\* NewHashTrieWriter over an empty store: no level holds a reference
NoTrie == [levels |-> [l \in 1..TrieMaxLevel |-> <<>>], full |-> FALSE,
           store |-> <<>>]
NoTrieCall == [op |-> "none", ref |-> 0, err |-> "nil"]

\* the span of the chunk that wraps the references of a level, taken from
\* the last of them only
WrapSpan_last(data) == data[Len(data)].span

\* the span of the chunk that wraps the references of a level: the sum of
\* their spans
WrapSpan(data) == SumSpans(data)

\* the BMT writer and the store writer: the chunk is put into the store and
\* the reference under which the store holds it is returned
StoreChunk(t, ch) == [t EXCEPT !.store = Append(@, ch)]
LastRef(t) == Len(t.store)

\* writeToLevel and wrapFullLevel: a reference is appended to a level; a
\* level that holds TrieBranching references is wrapped in a chunk, which is
\* hashed and stored and whose reference is written to the level above, and
\* the level is emptied; the trie is full once a reference reaches the
\* highest level
RECURSIVE writeToLevel(_, _, _)
RECURSIVE wrapFullLevel(_, _)
writeToLevel(t, level, entry) ==
    LET t1 == [t EXCEPT !.levels[level] = Append(@, entry)] IN
    IF Len(t1.levels[level]) = TrieBranching THEN wrapFullLevel(t1, level)
    ELSE t1

wrapFullLevel(t, level) ==
    LET data == t.levels[level]
        ch == [span |-> WrapSpan(data),
               refs |-> [i \in 1..Len(data) |-> data[i].ref]]
        t1 == StoreChunk(t, ch)
        t2 == writeToLevel(t1, level + 1, [ref |-> LastRef(t1), span |-> ch.span])
    IN [t2 EXCEPT !.levels[level] = <<>>,
                  !.full = @ \/ (level + 1 = TrieMaxLevel)]

\* the single reference of a level is lost instead of carried up
carryUp_drop(t, level) == [t EXCEPT !.levels[level] = <<>>]

\* a dangling reference: the single reference of a level is carried up to
\* the end of the level above, without a chunk that wraps it
carryUp(t, level) ==
    [t EXCEPT !.levels[level + 1] = @ \o t.levels[level],
              !.levels[level] = <<>>]

\* the loop of Sum over the levels below the highest
RECURSIVE hoistLevels(_, _)
hoistLevels(t, i) ==
    IF i >= TrieMaxLevel THEN t
    ELSE LET l == Len(t.levels[i]) IN
         IF l = 0 THEN hoistLevels(t, i + 1)
         ELSE IF l = TrieBranching THEN hoistLevels(wrapFullLevel(t, i), i + 1)
         ELSE IF l = 1 THEN hoistLevels(carryUp(t, i), i + 1)
         ELSE hoistLevels(wrapFullLevel(t, i), i + 1)

\* Sum: the reference left on the highest level is the root
Sum(t) ==
    LET t1 == hoistLevels(t, 1) IN
    IF Len(t1.levels[TrieMaxLevel]) # 1
    THEN [t |-> t1, ref |-> 0, err |-> "errInconsistentRefs"]
    ELSE [t |-> t1, ref |-> t1.levels[TrieMaxLevel][1].ref, err |-> "nil"]

\* ChainWrite that goes on writing to a full trie
ChainWrite_noFull(t, span) ==
    LET t1 == StoreChunk(t, [span |-> span, refs |-> <<>>]) IN
    [t |-> writeToLevel(t1, 1, [ref |-> LastRef(t1), span |-> span]),
     err |-> "nil"]

\* ChainWrite of the record of a chunk that the store writer has stored
ChainWrite(t, span) ==
    IF t.full THEN [t |-> t, err |-> "ErrTrieFull"]
    ELSE LET t1 == StoreChunk(t, [span |-> span, refs |-> <<>>]) IN
         [t |-> writeToLevel(t1, 1, [ref |-> LastRef(t1), span |-> span]),
          err |-> "nil"]

\* a chunk goes through the pipeline: the store writer puts it and the
\* hash-trie writer is given its reference and span
TrieChainWrite ==
    \E span \in Spans :
        LET r == ChainWrite(trie, span) IN
        /\ tLast.op # "Sum"
        /\ tCalls < MaxWrites
        /\ tCalls' = tCalls + 1
        /\ trie' = r.t
        /\ tWritten' = IF r.err = "nil" THEN Append(tWritten, span) ELSE tWritten
        /\ tLast' = [NoTrieCall EXCEPT !.op = "ChainWrite", !.err = r.err]
        /\ UNCHANGED <<netVars, connected, pushVars, handlerVars, storerVars, pinVars, pullVars, joinerVars, psliceVars, metricsVars, feederVars, socVars>>

\* Sum ends the use of the writer
TrieSum ==
    LET r == Sum(trie) IN
    /\ tLast.op # "Sum"
    /\ trie' = r.t
    /\ tLast' = [NoTrieCall EXCEPT !.op = "Sum", !.ref = r.ref, !.err = r.err]
    /\ UNCHANGED <<tCalls, tWritten>>
    /\ UNCHANGED <<netVars, connected, pushVars, handlerVars, storerVars, pinVars, pullVars, joinerVars, psliceVars, metricsVars, feederVars, socVars>>

NextTrie ==
    \/ TrieChainWrite
    \/ TrieSum

(***************************************************************************)
(* The peer set of kademlia: PSlice, a slice of peers ordered by bin and   *)
(* one cursor per bin, the index in the slice at which the bin starts.     *)
(***************************************************************************)
\* the number of bins given to pslice.New (4 in TestAddRemove), scaled down
SlBins == 3
\* the peers of every bin, as in TestAddRemove
PeersPerBin == 2
SlPeers == 1..(SlBins * PeersPerBin)
\* the proximity order of a peer to the base address, which the callers of
\* Add and Remove pass with the peer
SlPO(p) == (p - 1) \div PeersPerBin
\* what the function given to an iterator answers a visit with: nothing,
\* stop, or jump to the next bin
Callbacks == {"continue", "stop", "jump"}

\* pslice.New
NewPSlice == [peers |-> <<>>, bins |-> [i \in 0..(SlBins - 1) |-> 0]]
NoSliceCall == [op |-> "none", peer |-> 0, fn |-> "none", found |-> FALSE,
                bin |-> 0, none |-> FALSE, visits |-> <<>>]

\* PSlice.exists: the index of the peer in the slice, 0 when it is not there
IndexOf(s, addr) ==
    IF \E i \in 1..Len(s.peers) : s.peers[i] = addr
    THEN CHOOSE i \in 1..Len(s.peers) : s.peers[i] = addr
    ELSE 0

Exists(s, addr) == IndexOf(s, addr) # 0

\* incDeeper and decDeeper: the cursors of the bins deeper than po move
MoveDeeper(bins, po, by) ==
    [i \in DOMAIN bins |-> IF i > po THEN bins[i] + by ELSE bins[i]]

\* Add that does not look for the peer first
Add_again(s, addr, po) ==
    [peers |-> SubSeq(s.peers, 1, s.bins[po]) \o <<addr>>
                 \o SubSeq(s.peers, s.bins[po] + 1, Len(s.peers)),
     bins |-> MoveDeeper(s.bins, po, 1)]

\* PSlice.Add: a peer that is not in the slice is inserted where its bin
\* starts and the cursors of the deeper bins move up
Add(s, addr, po) ==
    IF Exists(s, addr) THEN s
    ELSE [peers |-> SubSeq(s.peers, 1, s.bins[po]) \o <<addr>>
                      \o SubSeq(s.peers, s.bins[po] + 1, Len(s.peers)),
          bins |-> MoveDeeper(s.bins, po, 1)]

\* PSlice.Remove: a peer that is in the slice is cut out and the cursors of
\* the deeper bins move down
Remove(s, addr, po) ==
    LET i == IndexOf(s, addr) IN
    IF i = 0 THEN s
    ELSE [peers |-> SubSeq(s.peers, 1, i - 1) \o SubSeq(s.peers, i + 1, Len(s.peers)),
          bins |-> MoveDeeper(s.bins, po, -1)]

\* where bin i ends: at the cursor of the next bin, the last bin at the end
\* of the slice
BinEnd(s, i) == IF i = SlBins - 1 THEN Len(s.peers) ELSE s.bins[i + 1]

\* ShallowestEmpty that takes the last bin for empty when it finds no other
ShallowestEmpty_last(s) ==
    LET empty == {i \in 0..(SlBins - 2) : BinEnd(s, i) = s.bins[i]} IN
    IF empty = {} THEN [bin |-> SlBins - 1, none |-> FALSE]
    ELSE [bin |-> CHOOSE i \in empty : \A j \in empty : i <= j, none |-> FALSE]

\* PSlice.ShallowestEmpty: the first bin whose cursor is the cursor of the
\* next bin; none when there is no such bin
ShallowestEmpty(s) ==
    LET empty == {i \in 0..(SlBins - 1) : BinEnd(s, i) = s.bins[i]} IN
    IF empty = {} THEN [bin |-> 0, none |-> TRUE]
    ELSE [bin |-> CHOOSE i \in empty : \A j \in empty : i <= j, none |-> FALSE]

\* the loop over the peers of one bin: the visits made, and whether the
\* function stopped the iteration
RECURSIVE VisitBin(_, _, _, _)
VisitBin(peers, k, po, fn) ==
    IF k > Len(peers) THEN [visits |-> <<>>, stop |-> FALSE]
    ELSE IF fn = "stop" THEN [visits |-> <<<<peers[k], po>>>>, stop |-> TRUE]
    ELSE IF fn = "jump" THEN [visits |-> <<<<peers[k], po>>>>, stop |-> FALSE]
    ELSE LET r == VisitBin(peers, k + 1, po, fn) IN
         [r EXCEPT !.visits = <<<<peers[k], po>>>> \o @]

\* the loop over the bins in the order given
RECURSIVE VisitBins(_, _, _)
VisitBins(s, order, fn) ==
    IF order = <<>> THEN <<>>
    ELSE LET i == Head(order)
             r == VisitBin(SubSeq(s.peers, s.bins[i] + 1, BinEnd(s, i)), 1, i, fn)
         IN IF r.stop THEN r.visits
            ELSE r.visits \o VisitBins(s, Tail(order), fn)

\* EachBin that starts at bin 0
EachBin_shallowFirst(s, fn) ==
    VisitBins(s, [k \in 1..SlBins |-> k - 1], fn)

\* PSlice.EachBin: from the deepest bin down to bin 0
EachBin(s, fn) ==
    VisitBins(s, [k \in 1..SlBins |-> SlBins - k], fn)

\* PSlice.EachBinRev: from bin 0 up to the deepest bin
EachBinRev(s, fn) ==
    VisitBins(s, [k \in 1..SlBins |-> k - 1], fn)

SliceAdd ==
    \E p \in SlPeers :
        /\ pslice' = Add(pslice, p, SlPO(p))
        /\ slLast' = [NoSliceCall EXCEPT !.op = "Add", !.peer = p,
                                         !.found = Exists(pslice, p)]
        /\ UNCHANGED <<netVars, connected, pushVars, handlerVars, storerVars, pinVars, pullVars, joinerVars, trieVars, metricsVars, feederVars, socVars>>

SliceRemove ==
    \E p \in SlPeers :
        /\ pslice' = Remove(pslice, p, SlPO(p))
        /\ slLast' = [NoSliceCall EXCEPT !.op = "Remove", !.peer = p,
                                         !.found = Exists(pslice, p)]
        /\ UNCHANGED <<netVars, connected, pushVars, handlerVars, storerVars, pinVars, pullVars, joinerVars, trieVars, metricsVars, feederVars, socVars>>

SliceExists ==
    \E p \in SlPeers :
        /\ slLast' = [NoSliceCall EXCEPT !.op = "Exists", !.peer = p,
                                         !.found = Exists(pslice, p)]
        /\ UNCHANGED pslice
        /\ UNCHANGED <<netVars, connected, pushVars, handlerVars, storerVars, pinVars, pullVars, joinerVars, trieVars, metricsVars, feederVars, socVars>>

SliceShallowestEmpty ==
    LET r == ShallowestEmpty(pslice) IN
    /\ slLast' = [NoSliceCall EXCEPT !.op = "ShallowestEmpty", !.bin = r.bin,
                                     !.none = r.none]
    /\ UNCHANGED pslice
    /\ UNCHANGED <<netVars, connected, pushVars, handlerVars, storerVars, pinVars, pullVars, joinerVars, trieVars, metricsVars, feederVars, socVars>>

SliceEachBin ==
    \E fn \in Callbacks :
        /\ slLast' = [NoSliceCall EXCEPT !.op = "EachBin", !.fn = fn,
                                         !.visits = EachBin(pslice, fn)]
        /\ UNCHANGED pslice
        /\ UNCHANGED <<netVars, connected, pushVars, handlerVars, storerVars, pinVars, pullVars, joinerVars, trieVars, metricsVars, feederVars, socVars>>

SliceEachBinRev ==
    \E fn \in Callbacks :
        /\ slLast' = [NoSliceCall EXCEPT !.op = "EachBinRev", !.fn = fn,
                                         !.visits = EachBinRev(pslice, fn)]
        /\ UNCHANGED pslice
        /\ UNCHANGED <<netVars, connected, pushVars, handlerVars, storerVars, pinVars, pullVars, joinerVars, trieVars, metricsVars, feederVars, socVars>>

NextSlice ==
    \/ SliceAdd
    \/ SliceRemove
    \/ SliceExists
    \/ SliceShallowestEmpty
    \/ SliceEachBin
    \/ SliceEachBinRev

(***************************************************************************)
(* The metrics collector of kademlia: the counters of one peer in the map  *)
(* of the Collector and their two fields in the database.                  *)
(***************************************************************************)
\* the latest time given to an operation; the times given never go back
MaxTime == 4
\* the largest number of connection retries counted
MaxRetry == 1
Times == 0..MaxTime
Directions == {"inbound", "outbound"}
\* what the database answers a flush with: it works, or the making of a
\* field or one of the two Puts fails
FlushOutcomes == {"ok", "errField", "errPutLastSeen", "errPutTotal"}

\* &Counters{peer: &addr}, as LoadOrStore stores it; present is FALSE while
\* the map of the Collector holds no counters for the peer
ZeroCounters ==
    [present |-> TRUE, dirty |-> FALSE, loggedIn |-> FALSE,
     lastSeenTimestamp |-> 0, connTotalDuration |-> 0, sessionConnRetry |-> 0,
     sessionConnDuration |-> 0, sessionConnDirection |-> "",
     persistent |-> FALSE]
NoCounters == [ZeroCounters EXCEPT !.present = FALSE]
\* the two Uint64Fields of the peer in the database, 0 before the first Put
EmptyDb == [lastSeenTimestamp |-> 0, connTotalDuration |-> 0]
NoMetricsCall == [op |-> "none", t |-> 0, err |-> "nil", snapshot |-> <<>>]

\* c.counters.LoadOrStore(addr.ByteString(), &Counters{peer: &addr})
LoadOrStore(cs) == IF cs.present THEN cs ELSE ZeroCounters

\* PeerLogIn that logs a logged-in peer in again
PeerLogIn_force(cs, t, dir) ==
    [cs EXCEPT !.loggedIn = TRUE, !.sessionConnDirection = dir,
               !.lastSeenTimestamp = t, !.dirty = TRUE]

\* PeerLogIn(t, dir)(cs)
PeerLogIn(cs, t, dir) ==
    IF cs.loggedIn THEN cs
    ELSE [cs EXCEPT !.loggedIn = TRUE, !.sessionConnDirection = dir,
                    !.lastSeenTimestamp = t, !.dirty = TRUE]

\* PeerLogOut that does not add the session to the total
PeerLogOut_noTotal(cs, t) ==
    IF ~cs.loggedIn THEN cs
    ELSE [cs EXCEPT !.loggedIn = FALSE,
                    !.sessionConnDuration = t - cs.lastSeenTimestamp,
                    !.lastSeenTimestamp = t, !.dirty = TRUE]

\* PeerLogOut(t)(cs)
PeerLogOut(cs, t) ==
    IF ~cs.loggedIn THEN cs
    ELSE [cs EXCEPT !.loggedIn = FALSE,
                    !.sessionConnDuration = t - cs.lastSeenTimestamp,
                    !.connTotalDuration = @ + (t - cs.lastSeenTimestamp),
                    !.lastSeenTimestamp = t, !.dirty = TRUE]

\* IncSessionConnectionRetry()(cs)
IncSessionConnectionRetry(cs) == [cs EXCEPT !.sessionConnRetry = @ + 1]

\* Counters.flush: counters that are dirty are written over the fields of
\* the peer, which are made (not read) when the counters have none yet
flush(cs, db, outcome) ==
    IF ~cs.dirty THEN [cs |-> cs, db |-> db, err |-> "nil"]
    ELSE IF ~cs.persistent /\ outcome = "errField"
    THEN [cs |-> cs, db |-> db, err |-> "field initialization failed"]
    ELSE LET cs1 == [cs EXCEPT !.persistent = TRUE] IN
         IF outcome = "errPutLastSeen"
         THEN [cs |-> cs1, db |-> db, err |-> "unable to persist last seen"]
         ELSE LET db1 == [db EXCEPT !.lastSeenTimestamp = cs.lastSeenTimestamp] IN
              IF outcome = "errPutTotal"
              THEN [cs |-> cs1, db |-> db1, err |-> "unable to persist total"]
              ELSE [cs |-> [cs1 EXCEPT !.dirty = FALSE],
                    db |-> [db1 EXCEPT !.connTotalDuration = cs.connTotalDuration],
                    err |-> "nil"]

\* Counters.snapshot
snapshot(cs, t) ==
    LET session == IF cs.loggedIn THEN t - cs.lastSeenTimestamp
                   ELSE cs.sessionConnDuration
    IN [LastSeenTimestamp |-> cs.lastSeenTimestamp,
        SessionConnectionRetry |-> cs.sessionConnRetry,
        ConnectionTotalDuration |-> IF cs.loggedIn THEN cs.connTotalDuration + session
                                    ELSE cs.connTotalDuration,
        SessionConnectionDuration |-> session,
        SessionConnectionDirection |-> cs.sessionConnDirection]

\* the sessions of the peer as the callers made them: whether one is open,
\* when it began, the sum of the durations of those that ended, and whether
\* Finalize has deleted the counters of the peer since
NoSessions == [open |-> FALSE, login |-> 0, sum |-> 0, finalized |-> FALSE]
SessionLogIn(s, t) == IF s.open THEN s ELSE [s EXCEPT !.open = TRUE, !.login = t]
SessionLogOut(s, t) ==
    IF ~s.open THEN s ELSE [s EXCEPT !.open = FALSE, !.sum = @ + (t - s.login)]

\* Collector.Record(addr, PeerLogIn(t, dir))
RecordLogIn ==
    \E t \in Times, dir \in Directions :
        /\ t >= mClock
        /\ mClock' = t
        /\ counters' = PeerLogIn(LoadOrStore(counters), t, dir)
        /\ mSessions' = SessionLogIn(mSessions, t)
        /\ mLast' = [NoMetricsCall EXCEPT !.op = "PeerLogIn", !.t = t]
        /\ UNCHANGED shedDb
        /\ UNCHANGED <<netVars, connected, pushVars, handlerVars, storerVars, pinVars, pullVars, joinerVars, trieVars, psliceVars, feederVars, socVars>>

\* Collector.Record(addr, PeerLogOut(t))
RecordLogOut ==
    \E t \in Times :
        /\ t >= mClock
        /\ mClock' = t
        /\ counters' = PeerLogOut(LoadOrStore(counters), t)
        /\ mSessions' = SessionLogOut(mSessions, t)
        /\ mLast' = [NoMetricsCall EXCEPT !.op = "PeerLogOut", !.t = t]
        /\ UNCHANGED shedDb
        /\ UNCHANGED <<netVars, connected, pushVars, handlerVars, storerVars, pinVars, pullVars, joinerVars, trieVars, psliceVars, feederVars, socVars>>

\* Collector.Record(addr, IncSessionConnectionRetry())
RecordRetry ==
    /\ LoadOrStore(counters).sessionConnRetry < MaxRetry
    /\ counters' = IncSessionConnectionRetry(LoadOrStore(counters))
    /\ mLast' = [NoMetricsCall EXCEPT !.op = "IncSessionConnectionRetry"]
    /\ UNCHANGED <<shedDb, mClock, mSessions>>
    /\ UNCHANGED <<netVars, connected, pushVars, handlerVars, storerVars, pinVars, pullVars, joinerVars, trieVars, psliceVars, feederVars, socVars>>

\* Collector.Snapshot(t, addr): no snapshot for a peer without counters
CollectorSnapshot ==
    \E t \in Times :
        /\ t >= mClock
        /\ mClock' = t
        /\ mLast' = [NoMetricsCall EXCEPT
                       !.op = "Snapshot", !.t = t,
                       !.snapshot = IF counters.present
                                    THEN <<snapshot(counters, t)>> ELSE <<>>]
        /\ UNCHANGED <<counters, shedDb, mSessions>>
        /\ UNCHANGED <<netVars, connected, pushVars, handlerVars, storerVars, pinVars, pullVars, joinerVars, trieVars, psliceVars, feederVars, socVars>>

\* Collector.Flush(addr)
CollectorFlush ==
    \E outcome \in FlushOutcomes :
        LET r == flush(counters, shedDb, outcome) IN
        /\ counters.present
        /\ counters' = r.cs
        /\ shedDb' = r.db
        /\ mLast' = [NoMetricsCall EXCEPT !.op = "Flush", !.err = r.err]
        /\ UNCHANGED <<mClock, mSessions>>
        /\ UNCHANGED <<netVars, connected, pushVars, handlerVars, storerVars, pinVars, pullVars, joinerVars, trieVars, psliceVars, feederVars, socVars>>

\* Collector.Finalize(t): the peer is logged out, its counters are flushed
\* and then deleted from the map, also when the flush failed
CollectorFinalize ==
    \E t \in Times, outcome \in FlushOutcomes :
        LET r == flush(PeerLogOut(counters, t), shedDb, outcome) IN
        /\ t >= mClock
        /\ mClock' = t
        /\ counters.present
        /\ counters' = NoCounters
        /\ shedDb' = r.db
        /\ mSessions' = [SessionLogOut(mSessions, t) EXCEPT !.finalized = TRUE]
        /\ mLast' = [NoMetricsCall EXCEPT !.op = "Finalize", !.t = t, !.err = r.err]
        /\ UNCHANGED <<netVars, connected, pushVars, handlerVars, storerVars, pinVars, pullVars, joinerVars, trieVars, psliceVars, feederVars, socVars>>

NextMetrics ==
    \/ RecordLogIn
    \/ RecordLogOut
    \/ RecordRetry
    \/ CollectorSnapshot
    \/ CollectorFlush
    \/ CollectorFinalize

(***************************************************************************)
(* The chunk feeder of the file pipeline, in front of a next stage that    *)
(* takes its chunks with ChainWrite.                                       *)
(***************************************************************************)
\* chunkFeeder.size, the payload of a full chunk (4096 in the program),
\* scaled down
FeederSize == 2
\* the longest slice given to one Write
MaxWriteLen == 3
\* the most bytes written to one feeder
MaxStream == 6
\* swarm.SpanSize
SpanSize == 8

\* binary.LittleEndian.PutUint64: the bytes of n, the lowest first
RECURSIVE PutUint64From(_, _)
PutUint64From(n, i) ==
    IF i > SpanSize THEN <<>> ELSE <<n % 256>> \o PutUint64From(n \div 256, i + 1)
PutUint64(n) == PutUint64From(n, 1)

\* binary.LittleEndian.Uint64
RECURSIVE Uint64(_)
Uint64(bytes) ==
    IF bytes = <<>> THEN 0 ELSE Head(bytes) + 256 * Uint64(Tail(bytes))

\* NewChunkFeederWriter: nothing was written and nothing passed on
NoFeeder == [written |-> <<>>, chunks |-> <<>>, failed |-> FALSE, ended |-> FALSE]
NoFeederCall == [op |-> "none", n |-> 0, err |-> "nil"]

\* the loop of chunkFeeder.Write from index i of b: every turn cuts at most
\* size bytes off b, puts their number in front of them as the span and
\* gives them to ChainWrite of the next stage, which takes all of them or
\* fails in turn failAt; w adds up what it took
RECURSIVE FeedLoop(_, _, _, _, _, _)
FeedLoop(b, i, size, turn, failAt, acc) ==
    IF i >= Len(b) THEN acc
    ELSE LET l == Len(b)
             d == IF i + size > l THEN SubSeq(b, i + 1, l)
                  ELSE SubSeq(b, i + 1, i + size)
             data == PutUint64(Len(d)) \o d
             passed == [acc EXCEPT !.chunks = Append(@, data)]
         IN
         IF turn = failAt
         THEN [passed EXCEPT !.w = 0, !.err = "ErrChainWrite"]
         ELSE FeedLoop(b, i + size, size, turn + 1, failAt,
                       [passed EXCEPT !.w = @ + Len(data)])

\* chunkFeeder.Write(b)
FeederWrite(f, b, failAt) ==
    LET r == FeedLoop(b, 0, FeederSize, 1, failAt,
                      [chunks |-> f.chunks, w |-> 0, err |-> "nil"])
    IN [f |-> [f EXCEPT !.written = @ \o b, !.chunks = r.chunks,
                        !.failed = @ \/ r.err # "nil"],
        n |-> r.w, err |-> r.err]

\* the bytes of the stream from position from + 1 on, n of them
StreamBytes(from, n) == [k \in 1..n |-> from + k]

\* Write with the next bytes of the stream; the next stage may fail in one
\* of the turns
ChunkFeederWrite ==
    \E n \in 0..MaxWriteLen, failAt \in 0..MaxWriteLen :
        /\ ~feeder.ended
        /\ Len(feeder.written) + n <= MaxStream
        /\ failAt * FeederSize < n + FeederSize
        /\ \E r \in {FeederWrite(feeder, StreamBytes(Len(feeder.written), n), failAt)} :
              /\ feeder' = r.f
              /\ cfLast' = [NoFeederCall EXCEPT !.op = "Write", !.n = r.n, !.err = r.err]
        /\ UNCHANGED <<netVars, connected, pushVars, handlerVars, storerVars, pinVars, pullVars, joinerVars, trieVars, psliceVars, metricsVars, socVars>>

\* chunkFeeder.Sum at the end of the stream: the Sum of the next stage
ChunkFeederSum ==
    /\ ~feeder.ended
    /\ feeder' = [feeder EXCEPT !.ended = TRUE]
    /\ cfLast' = [NoFeederCall EXCEPT !.op = "Sum"]
    /\ UNCHANGED <<netVars, connected, pushVars, handlerVars, storerVars, pinVars, pullVars, joinerVars, trieVars, psliceVars, metricsVars, socVars>>

NextFeeder ==
    \/ ChunkFeederWrite
    \/ ChunkFeederSum

(***************************************************************************)
(* The API: uploads of single-owner chunks, each served by its own run of  *)
(* socUploadHandler over the one store.                                    *)
(***************************************************************************)
\* number of upload requests
NumUploads == 2
Uploads == 1..NumUploads
\* the ids of the single-owner chunks, of one owner, and their payloads
SocIds == {1, 2}
SocPayloads == {1, 2}
\* a request: well formed and signed by the owner, or failing one of the
\* checks of the handler
SocRequests ==
    {"valid", "badOwner", "badId", "emptySig", "badSig", "readErr", "short",
     "large", "chunkErr", "signErr", "invalid"}
StoreOutcomes == {"ok", "err"}

\* what the handler answers a request that fails a check with
SocRejection(kind) ==
    IF kind \in {"badOwner", "badId", "emptySig", "badSig", "short", "chunkErr"}
    THEN "BadRequest"
    ELSE IF kind = "large" THEN "RequestEntityTooLarge"
    ELSE IF kind = "invalid" THEN "Unauthorized"
    ELSE "InternalServerError"

\* the address of the single-owner chunk of an id, the owner being one
SocAddress(id) == id

NoUpload == [pc |-> "idle", id |-> 0, payload |-> 0, status |-> "none"]
EmptySocStore == [a \in SocIds |-> NoData]

\* socUploadHandler up to soc.Valid: a request that fails a check is
\* answered at once
SocUploadStart ==
    \E u \in Uploads, kind \in SocRequests, id \in SocIds, payload \in SocPayloads :
        /\ uploads[u].pc = "idle"
        /\ uploads' = [uploads EXCEPT ![u] =
              IF kind = "valid"
              THEN [pc |-> "has", id |-> id, payload |-> payload, status |-> "none"]
              ELSE [pc |-> "done", id |-> id, payload |-> payload,
                    status |-> SocRejection(kind)]]
        /\ UNCHANGED socStore
        /\ UNCHANGED <<netVars, connected, pushVars, handlerVars, storerVars, pinVars, pullVars, joinerVars, trieVars, psliceVars, metricsVars, feederVars>>

\* s.storer.Has(ctx, chunk.Address()) and the answers that follow it
SocUploadHas ==
    \E u \in Uploads, o \in StoreOutcomes :
        /\ uploads[u].pc = "has"
        /\ uploads' = [uploads EXCEPT ![u] =
              IF o = "err"
              THEN [@ EXCEPT !.pc = "done", !.status = "InternalServerError"]
              ELSE IF socStore[SocAddress(uploads[u].id)] # NoData
              THEN [@ EXCEPT !.pc = "done", !.status = "Conflict"]
              ELSE [@ EXCEPT !.pc = "put"]]
        /\ UNCHANGED socStore
        /\ UNCHANGED <<netVars, connected, pushVars, handlerVars, storerVars, pinVars, pullVars, joinerVars, trieVars, psliceVars, metricsVars, feederVars>>

\* s.storer.Put(ctx, requestModePut(r), chunk) and the answer
SocUploadPut ==
    \E u \in Uploads, o \in StoreOutcomes :
        /\ uploads[u].pc = "put"
        /\ IF o = "err"
           THEN /\ uploads' = [uploads EXCEPT ![u].pc = "done", ![u].status = "BadRequest"]
                /\ UNCHANGED socStore
           ELSE /\ socStore' = [socStore EXCEPT ![SocAddress(uploads[u].id)] = uploads[u].payload]
                /\ uploads' = [uploads EXCEPT ![u].pc = "done", ![u].status = "Created"]
        /\ UNCHANGED <<netVars, connected, pushVars, handlerVars, storerVars, pinVars, pullVars, joinerVars, trieVars, psliceVars, metricsVars, feederVars>>

NextSoc ==
    \/ SocUploadStart
    \/ SocUploadHas
    \/ SocUploadPut

(***************************************************************************)
(* Specifications, one per component.                                      *)
(* A specification runs one component: the variables of the components   *)
(* it leaves out hold the empty tuple and never change.                    *)
(***************************************************************************)
\* netstore.New over a NewStorer or a NewValidatingStorer, with any of the
\* validator lists; the other
\* components are left out
InitNet ==
    /\ nsStore \in {NewStorer(0)} \cup {NewValidatingStorer(v) : v \in ValidatorKinds}
    /\ nsValidators \in ValidatorLists
    /\ nsCallback = FALSE
    /\ nsHooks = 0
    /\ nsLast = NoCall
    /\ connected = <<>>
    /\ handler = <<>>
    /\ hEvents = <<>>
    /\ psChunk = <<>>
    /\ push = <<>>
    /\ psEvents = <<>>
    /\ tagSent = <<>>
    /\ storer = <<>>
    /\ storerLast = <<>>
    /\ modeSet = <<>>
    /\ pinnedAddress = <<>>
    /\ pinnedCounter = <<>>
    /\ pinLast = <<>>
    /\ subpull = <<>>
    /\ partialInterval = <<>>
    /\ pullMtx = <<>>
    /\ quit = <<>>
    /\ morePull = <<>>
    /\ subs = <<>>
    /\ pullPanic = <<>>
    /\ jFile = <<>>
    /\ jStore = <<>>
    /\ job = <<>>
    /\ prod = <<>>
    /\ jClosed = <<>>
    /\ jCtxDone = <<>>
    /\ reader = <<>>
    /\ trie = <<>>
    /\ tWritten = <<>>
    /\ tCalls = <<>>
    /\ tLast = <<>>
    /\ pslice = <<>>
    /\ slLast = <<>>
    /\ counters = <<>>
    /\ shedDb = <<>>
    /\ mClock = <<>>
    /\ mSessions = <<>>
    /\ mLast = <<>>
    /\ feeder = <<>>
    /\ cfLast = <<>>
    /\ socStore = <<>>
    /\ uploads = <<>>

\* pushsync.New: no call is running, nothing was sent and the tag counts
\* nothing; the other
\* components are left out
InitPushSync ==
    /\ nsStore = <<>>
    /\ nsValidators = <<>>
    /\ nsCallback = <<>>
    /\ nsHooks = <<>>
    /\ nsLast = <<>>
    /\ connected = {}
    /\ handler = NoHandler
    /\ hEvents = <<>>
    /\ psChunk = 0
    /\ push = NoPush
    /\ psEvents = <<>>
    /\ tagSent = 0
    /\ storer = <<>>
    /\ storerLast = <<>>
    /\ modeSet = <<>>
    /\ pinnedAddress = <<>>
    /\ pinnedCounter = <<>>
    /\ pinLast = <<>>
    /\ subpull = <<>>
    /\ partialInterval = <<>>
    /\ pullMtx = <<>>
    /\ quit = <<>>
    /\ morePull = <<>>
    /\ subs = <<>>
    /\ pullPanic = <<>>
    /\ jFile = <<>>
    /\ jStore = <<>>
    /\ job = <<>>
    /\ prod = <<>>
    /\ jClosed = <<>>
    /\ jCtxDone = <<>>
    /\ reader = <<>>
    /\ trie = <<>>
    /\ tWritten = <<>>
    /\ tCalls = <<>>
    /\ tLast = <<>>
    /\ pslice = <<>>
    /\ slLast = <<>>
    /\ counters = <<>>
    /\ shedDb = <<>>
    /\ mClock = <<>>
    /\ mSessions = <<>>
    /\ mLast = <<>>
    /\ feeder = <<>>
    /\ cfLast = <<>>
    /\ socStore = <<>>
    /\ uploads = <<>>

\* mock.NewStorer with a base address, or mock.NewValidatingStorer with a
\* validator; the other
\* components are left out
InitStorer ==
    /\ nsStore = <<>>
    /\ nsValidators = <<>>
    /\ nsCallback = <<>>
    /\ nsHooks = <<>>
    /\ nsLast = <<>>
    /\ connected = <<>>
    /\ handler = <<>>
    /\ hEvents = <<>>
    /\ psChunk = <<>>
    /\ push = <<>>
    /\ psEvents = <<>>
    /\ tagSent = <<>>
    /\ storer \in {NewStorer(b) : b \in {0} \cup Addrs} \cup {NewValidatingStorer(v) : v \in ValidatorKinds}
    /\ storerLast = NoStorerCall
    /\ modeSet = <<>>
    /\ pinnedAddress = <<>>
    /\ pinnedCounter = <<>>
    /\ pinLast = <<>>
    /\ subpull = <<>>
    /\ partialInterval = <<>>
    /\ pullMtx = <<>>
    /\ quit = <<>>
    /\ morePull = <<>>
    /\ subs = <<>>
    /\ pullPanic = <<>>
    /\ jFile = <<>>
    /\ jStore = <<>>
    /\ job = <<>>
    /\ prod = <<>>
    /\ jClosed = <<>>
    /\ jCtxDone = <<>>
    /\ reader = <<>>
    /\ trie = <<>>
    /\ tWritten = <<>>
    /\ tCalls = <<>>
    /\ tLast = <<>>
    /\ pslice = <<>>
    /\ slLast = <<>>
    /\ counters = <<>>
    /\ shedDb = <<>>
    /\ mClock = <<>>
    /\ mSessions = <<>>
    /\ mLast = <<>>
    /\ feeder = <<>>
    /\ cfLast = <<>>
    /\ socStore = <<>>
    /\ uploads = <<>>

\* a new MockStorer: nothing is pinned; the other
\* components are left out
InitPin ==
    /\ nsStore = <<>>
    /\ nsValidators = <<>>
    /\ nsCallback = <<>>
    /\ nsHooks = <<>>
    /\ nsLast = <<>>
    /\ connected = <<>>
    /\ handler = <<>>
    /\ hEvents = <<>>
    /\ psChunk = <<>>
    /\ push = <<>>
    /\ psEvents = <<>>
    /\ tagSent = <<>>
    /\ storer = <<>>
    /\ storerLast = <<>>
    /\ modeSet = [a \in Addrs |-> "none"]
    /\ pinnedAddress = <<>>
    /\ pinnedCounter = <<>>
    /\ pinLast = NoSetCall
    /\ subpull = <<>>
    /\ partialInterval = <<>>
    /\ pullMtx = <<>>
    /\ quit = <<>>
    /\ morePull = <<>>
    /\ subs = <<>>
    /\ pullPanic = <<>>
    /\ jFile = <<>>
    /\ jStore = <<>>
    /\ job = <<>>
    /\ prod = <<>>
    /\ jClosed = <<>>
    /\ jCtxDone = <<>>
    /\ reader = <<>>
    /\ trie = <<>>
    /\ tWritten = <<>>
    /\ tCalls = <<>>
    /\ tLast = <<>>
    /\ pslice = <<>>
    /\ slLast = <<>>
    /\ counters = <<>>
    /\ shedDb = <<>>
    /\ mClock = <<>>
    /\ mSessions = <<>>
    /\ mLast = <<>>
    /\ feeder = <<>>
    /\ cfLast = <<>>
    /\ socStore = <<>>
    /\ uploads = <<>>

\* mock.NewStorer with WithSubscribePullChunks and WithPartialInterval: no
\* subscription is open; the other
\* components are left out
InitPull ==
    /\ nsStore = <<>>
    /\ nsValidators = <<>>
    /\ nsCallback = <<>>
    /\ nsHooks = <<>>
    /\ nsLast = <<>>
    /\ connected = <<>>
    /\ handler = <<>>
    /\ hEvents = <<>>
    /\ psChunk = <<>>
    /\ push = <<>>
    /\ psEvents = <<>>
    /\ tagSent = <<>>
    /\ storer = <<>>
    /\ storerLast = <<>>
    /\ modeSet = <<>>
    /\ pinnedAddress = <<>>
    /\ pinnedCounter = <<>>
    /\ pinLast = <<>>
    /\ subpull \in DescriptorLists
    /\ partialInterval \in BOOLEAN
    /\ pullMtx = Unlocked
    /\ quit = FALSE
    /\ morePull = FALSE
    /\ subs = [s \in SubIds |-> NoSub]
    /\ pullPanic = "none"
    /\ jFile = <<>>
    /\ jStore = <<>>
    /\ job = <<>>
    /\ prod = <<>>
    /\ jClosed = <<>>
    /\ jCtxDone = <<>>
    /\ reader = <<>>
    /\ trie = <<>>
    /\ tWritten = <<>>
    /\ tCalls = <<>>
    /\ tLast = <<>>
    /\ pslice = <<>>
    /\ slLast = <<>>
    /\ counters = <<>>
    /\ shedDb = <<>>
    /\ mClock = <<>>
    /\ mSessions = <<>>
    /\ mLast = <<>>
    /\ feeder = <<>>
    /\ cfLast = <<>>
    /\ socStore = <<>>
    /\ uploads = <<>>

\* a store that holds the chunks of one file, all of them or all but one, and
\* a consumer with a zeroed buffer; the job is not yet made; the other
\* components are left out
InitJoiner ==
    /\ nsStore = <<>>
    /\ nsValidators = <<>>
    /\ nsCallback = <<>>
    /\ nsHooks = <<>>
    /\ nsLast = <<>>
    /\ connected = <<>>
    /\ handler = <<>>
    /\ hEvents = <<>>
    /\ psChunk = <<>>
    /\ push = <<>>
    /\ psEvents = <<>>
    /\ tagSent = <<>>
    /\ storer = <<>>
    /\ storerLast = <<>>
    /\ modeSet = <<>>
    /\ pinnedAddress = <<>>
    /\ pinnedCounter = <<>>
    /\ pinLast = <<>>
    /\ subpull = <<>>
    /\ partialInterval = <<>>
    /\ pullMtx = <<>>
    /\ quit = <<>>
    /\ morePull = <<>>
    /\ subs = <<>>
    /\ pullPanic = <<>>
    /\ jFile \in FileLens
    /\ jStore \in {Trie(jFile).chunks} \cup {Trie(jFile).chunks \ {ch} : ch \in Trie(jFile).chunks \ {Trie(jFile).root}}
    /\ job = NoJob
    /\ prod = NoProd
    /\ jClosed = FALSE
    /\ jCtxDone = FALSE
    /\ reader \in {[pc |-> "open", b |-> [i \in 1..n |-> 0], n |-> 0, out |-> <<>>, err |-> "nil"] : n \in BufSizes}
    /\ trie = <<>>
    /\ tWritten = <<>>
    /\ tCalls = <<>>
    /\ tLast = <<>>
    /\ pslice = <<>>
    /\ slLast = <<>>
    /\ counters = <<>>
    /\ shedDb = <<>>
    /\ mClock = <<>>
    /\ mSessions = <<>>
    /\ mLast = <<>>
    /\ feeder = <<>>
    /\ cfLast = <<>>
    /\ socStore = <<>>
    /\ uploads = <<>>

\* NewHashTrieWriter over an empty store; the other
\* components are left out
InitTrie ==
    /\ nsStore = <<>>
    /\ nsValidators = <<>>
    /\ nsCallback = <<>>
    /\ nsHooks = <<>>
    /\ nsLast = <<>>
    /\ connected = <<>>
    /\ handler = <<>>
    /\ hEvents = <<>>
    /\ psChunk = <<>>
    /\ push = <<>>
    /\ psEvents = <<>>
    /\ tagSent = <<>>
    /\ storer = <<>>
    /\ storerLast = <<>>
    /\ modeSet = <<>>
    /\ pinnedAddress = <<>>
    /\ pinnedCounter = <<>>
    /\ pinLast = <<>>
    /\ subpull = <<>>
    /\ partialInterval = <<>>
    /\ pullMtx = <<>>
    /\ quit = <<>>
    /\ morePull = <<>>
    /\ subs = <<>>
    /\ pullPanic = <<>>
    /\ jFile = <<>>
    /\ jStore = <<>>
    /\ job = <<>>
    /\ prod = <<>>
    /\ jClosed = <<>>
    /\ jCtxDone = <<>>
    /\ reader = <<>>
    /\ trie = NoTrie
    /\ tWritten = <<>>
    /\ tCalls = 0
    /\ tLast = NoTrieCall
    /\ pslice = <<>>
    /\ slLast = <<>>
    /\ counters = <<>>
    /\ shedDb = <<>>
    /\ mClock = <<>>
    /\ mSessions = <<>>
    /\ mLast = <<>>
    /\ feeder = <<>>
    /\ cfLast = <<>>
    /\ socStore = <<>>
    /\ uploads = <<>>

\* pslice.New: no peer is in the set; the other components are left out
InitSlice ==
    /\ nsStore = <<>>
    /\ nsValidators = <<>>
    /\ nsCallback = <<>>
    /\ nsHooks = <<>>
    /\ nsLast = <<>>
    /\ connected = <<>>
    /\ handler = <<>>
    /\ hEvents = <<>>
    /\ psChunk = <<>>
    /\ push = <<>>
    /\ psEvents = <<>>
    /\ tagSent = <<>>
    /\ storer = <<>>
    /\ storerLast = <<>>
    /\ modeSet = <<>>
    /\ pinnedAddress = <<>>
    /\ pinnedCounter = <<>>
    /\ pinLast = <<>>
    /\ subpull = <<>>
    /\ partialInterval = <<>>
    /\ pullMtx = <<>>
    /\ quit = <<>>
    /\ morePull = <<>>
    /\ subs = <<>>
    /\ pullPanic = <<>>
    /\ jFile = <<>>
    /\ jStore = <<>>
    /\ job = <<>>
    /\ prod = <<>>
    /\ jClosed = <<>>
    /\ jCtxDone = <<>>
    /\ reader = <<>>
    /\ trie = <<>>
    /\ tWritten = <<>>
    /\ tCalls = <<>>
    /\ tLast = <<>>
    /\ pslice = NewPSlice
    /\ slLast = NoSliceCall
    /\ counters = <<>>
    /\ shedDb = <<>>
    /\ mClock = <<>>
    /\ mSessions = <<>>
    /\ mLast = <<>>
    /\ feeder = <<>>
    /\ cfLast = <<>>
    /\ socStore = <<>>
    /\ uploads = <<>>

\* NewCollector over an empty database: the map holds no counters; the
\* other components are left out
InitMetrics ==
    /\ nsStore = <<>>
    /\ nsValidators = <<>>
    /\ nsCallback = <<>>
    /\ nsHooks = <<>>
    /\ nsLast = <<>>
    /\ connected = <<>>
    /\ handler = <<>>
    /\ hEvents = <<>>
    /\ psChunk = <<>>
    /\ push = <<>>
    /\ psEvents = <<>>
    /\ tagSent = <<>>
    /\ storer = <<>>
    /\ storerLast = <<>>
    /\ modeSet = <<>>
    /\ pinnedAddress = <<>>
    /\ pinnedCounter = <<>>
    /\ pinLast = <<>>
    /\ subpull = <<>>
    /\ partialInterval = <<>>
    /\ pullMtx = <<>>
    /\ quit = <<>>
    /\ morePull = <<>>
    /\ subs = <<>>
    /\ pullPanic = <<>>
    /\ jFile = <<>>
    /\ jStore = <<>>
    /\ job = <<>>
    /\ prod = <<>>
    /\ jClosed = <<>>
    /\ jCtxDone = <<>>
    /\ reader = <<>>
    /\ trie = <<>>
    /\ tWritten = <<>>
    /\ tCalls = <<>>
    /\ tLast = <<>>
    /\ pslice = <<>>
    /\ slLast = <<>>
    /\ counters = NoCounters
    /\ shedDb = EmptyDb
    /\ mClock = 0
    /\ mSessions = NoSessions
    /\ mLast = NoMetricsCall
    /\ feeder = <<>>
    /\ cfLast = <<>>
    /\ socStore = <<>>
    /\ uploads = <<>>

\* NewChunkFeederWriter: nothing was written; the other components are left
\* out
InitFeeder ==
    /\ nsStore = <<>>
    /\ nsValidators = <<>>
    /\ nsCallback = <<>>
    /\ nsHooks = <<>>
    /\ nsLast = <<>>
    /\ connected = <<>>
    /\ handler = <<>>
    /\ hEvents = <<>>
    /\ psChunk = <<>>
    /\ push = <<>>
    /\ psEvents = <<>>
    /\ tagSent = <<>>
    /\ storer = <<>>
    /\ storerLast = <<>>
    /\ modeSet = <<>>
    /\ pinnedAddress = <<>>
    /\ pinnedCounter = <<>>
    /\ pinLast = <<>>
    /\ subpull = <<>>
    /\ partialInterval = <<>>
    /\ pullMtx = <<>>
    /\ quit = <<>>
    /\ morePull = <<>>
    /\ subs = <<>>
    /\ pullPanic = <<>>
    /\ jFile = <<>>
    /\ jStore = <<>>
    /\ job = <<>>
    /\ prod = <<>>
    /\ jClosed = <<>>
    /\ jCtxDone = <<>>
    /\ reader = <<>>
    /\ trie = <<>>
    /\ tWritten = <<>>
    /\ tCalls = <<>>
    /\ tLast = <<>>
    /\ pslice = <<>>
    /\ slLast = <<>>
    /\ counters = <<>>
    /\ shedDb = <<>>
    /\ mClock = <<>>
    /\ mSessions = <<>>
    /\ mLast = <<>>
    /\ feeder = NoFeeder
    /\ cfLast = NoFeederCall
    /\ socStore = <<>>
    /\ uploads = <<>>

\* a server over an empty store, no request being served; the other
\* components are left out
InitSoc ==
    /\ nsStore = <<>>
    /\ nsValidators = <<>>
    /\ nsCallback = <<>>
    /\ nsHooks = <<>>
    /\ nsLast = <<>>
    /\ connected = <<>>
    /\ handler = <<>>
    /\ hEvents = <<>>
    /\ psChunk = <<>>
    /\ push = <<>>
    /\ psEvents = <<>>
    /\ tagSent = <<>>
    /\ storer = <<>>
    /\ storerLast = <<>>
    /\ modeSet = <<>>
    /\ pinnedAddress = <<>>
    /\ pinnedCounter = <<>>
    /\ pinLast = <<>>
    /\ subpull = <<>>
    /\ partialInterval = <<>>
    /\ pullMtx = <<>>
    /\ quit = <<>>
    /\ morePull = <<>>
    /\ subs = <<>>
    /\ pullPanic = <<>>
    /\ jFile = <<>>
    /\ jStore = <<>>
    /\ job = <<>>
    /\ prod = <<>>
    /\ jClosed = <<>>
    /\ jCtxDone = <<>>
    /\ reader = <<>>
    /\ trie = <<>>
    /\ tWritten = <<>>
    /\ tCalls = <<>>
    /\ tLast = <<>>
    /\ pslice = <<>>
    /\ slLast = <<>>
    /\ counters = <<>>
    /\ shedDb = <<>>
    /\ mClock = <<>>
    /\ mSessions = <<>>
    /\ mLast = <<>>
    /\ feeder = <<>>
    /\ cfLast = <<>>
    /\ socStore = EmptySocStore
    /\ uploads = [u \in Uploads |-> NoUpload]

SpecNet == InitNet /\ [][NextNet]_vars

SpecPush == InitPushSync /\ [][NextPush]_vars

SpecHandler == InitPushSync /\ [][NextHandler]_vars

SpecStorer == InitStorer /\ [][NextStorer]_vars

SpecPin == InitPin /\ [][NextPin]_vars

SpecPull == InitPull /\ [][NextPull]_vars

SpecJoiner == InitJoiner /\ [][NextJoiner]_vars

SpecTrie == InitTrie /\ [][NextTrie]_vars

SpecSlice == InitSlice /\ [][NextSlice]_vars

SpecMetrics == InitMetrics /\ [][NextMetrics]_vars

SpecFeeder == InitFeeder /\ [][NextFeeder]_vars

SpecSoc == InitSoc /\ [][NextSoc]_vars

(***************************************************************************)
(* Properties of the netstore.                                             *)
(***************************************************************************)
\* some registered validator accepts the chunk
SomeValidatorAccepts(ch) ==
    \E i \in 1..Len(nsValidators) : Validate(nsValidators[i], ch)

\* the last operation was a Get that missed locally and for which the
\* retrieval client returned data that validates
RetrievedValid ==
    /\ nsLast.op = "Get"
    /\ nsLast.miss
    /\ nsLast.rdata # NoData
    /\ SomeValidatorAccepts(NewChunk(nsLast.addr, nsLast.rdata))

\* C8 as stated: on a local miss for which the retrieval client returns data
\* that validates, Get returns the chunk (addr, data) and the address is
\* present in the wrapped store afterwards
C8_Original ==
    RetrievedValid =>
        /\ nsLast.err = "nil"
        /\ nsLast.ch = NewChunk(nsLast.addr, nsLast.rdata)
        /\ nsStore.store[nsLast.addr] = nsLast.rdata

\* C8 (amended): on a local miss for which the retrieval client returns data
\* that validates, Get first puts the chunk into the wrapped store under
\* ModePutRequest; when that Put succeeds Get returns the chunk (addr, data)
\* and the address is present locally, when it fails Get returns the error
\* of the Put and no chunk; a Get of an address that is present locally
\* returns the stored chunk without calling the retrieval client
C8_RetrievedChunkPutThenReturned ==
    [][/\ RetrievedValid' =>
            /\ nsLast'.put # "none"
            /\ nsLast'.putMode = "ModePutRequest"
            /\ nsLast'.put = "ok" =>
                  /\ nsLast'.err = "nil"
                  /\ nsLast'.ch = NewChunk(nsLast'.addr, nsLast'.rdata)
                  /\ nsStore'.store[nsLast'.addr] = nsLast'.rdata
            /\ nsLast'.put # "ok" =>
                  /\ nsLast'.err = "netstore retrieve put"
                  /\ nsLast'.ch = NoChunk
       /\ (nsLast'.op = "Get" /\ nsStore.store[nsLast'.addr] # NoData) =>
            /\ ~nsLast'.retrieved
            /\ nsLast'.err = "nil"
            /\ nsLast'.ch = NewChunk(nsLast'.addr, nsStore.store[nsLast'.addr])
            /\ nsStore' = nsStore
      ]_vars

\* a Get missed locally, retrieved data that validates, stored it and
\* returned it
C8_Witness ==
    /\ RetrievedValid
    /\ nsLast.put = "ok"
    /\ nsLast.ch = NewChunk(nsLast.addr, nsLast.rdata)
    /\ nsStore.store[nsLast.addr] = nsLast.rdata

\* C9 as stated: on a local miss, when the context carries recovery targets
\* and a recovery hook is configured, Get fires the hook and returns
\* ErrRecoveryAttempt, and the retrieval client is not called
C9_Original ==
    (nsLast.op = "Get" /\ nsLast.miss /\ nsLast.targets /\ nsCallback) =>
        /\ nsLast.hook
        /\ nsLast.err = "ErrRecoveryAttempt"
        /\ ~nsLast.retrieved

\* C9 (amended): on a local miss Get calls the retrieval client first; the
\* hook is fired exactly when the retrieval fails, the context carries
\* recovery targets and a recovery hook is configured, and Get then returns
\* ErrRecoveryAttempt while the hook's goroutine has not yet run; in every
\* other case no hook is fired and ErrRecoveryAttempt is not returned
C9_HookAfterFailedRetrieval ==
    nsLast.op = "Get" =>
        /\ nsLast.miss => nsLast.retrieved
        /\ nsLast.hook <=>
              (nsLast.miss /\ nsLast.rdata = NoData /\ nsLast.targets /\ nsCallback)
        /\ nsLast.hook <=> (nsLast.err = "ErrRecoveryAttempt")
        /\ nsLast.hook => (nsHooks > 0 /\ nsLast.ch = NoChunk)

\* a Get whose retrieval failed started the hook and returned
\* ErrRecoveryAttempt before the hook ran
C9_Witness ==
    /\ nsLast.op = "Get"
    /\ nsLast.retrieved
    /\ nsLast.hook
    /\ nsLast.err = "ErrRecoveryAttempt"
    /\ nsHooks = 1

\* C10: the wrapped store is written only by a call all of whose chunks
\* were accepted by at least one registered validator; a Get whose
\* retrieved data no validator accepts (also when none is registered)
\* returns ErrInvalidChunk, does not call the wrapped Put and leaves the
\* store as it was
C10_StoredOnlyIfSomeValidatorAccepts ==
    [][/\ (nsStore' # nsStore \/ nsLast'.put # "none") =>
            /\ nsLast'.op \in {"Get", "Put"}
            /\ \A a \in Addrs :
                  nsStore'.store[a] # nsStore.store[a] =>
                      SomeValidatorAccepts(NewChunk(a, nsStore'.store[a]))
       /\ (nsLast'.put # "none" /\ nsLast'.op = "Get") =>
            SomeValidatorAccepts(NewChunk(nsLast'.addr, nsLast'.rdata))
       /\ (/\ nsLast'.op = "Get"
           /\ nsLast'.miss
           /\ nsLast'.rdata # NoData
           /\ ~SomeValidatorAccepts(NewChunk(nsLast'.addr, nsLast'.rdata))) =>
            /\ nsLast'.err = "ErrInvalidChunk"
            /\ nsLast'.put = "none"
            /\ nsLast'.ch = NoChunk
            /\ nsStore' = nsStore
      ]_vars

\* a Get retrieved data that no registered validator accepts
C10_Witness ==
    /\ nsLast.op = "Get"
    /\ nsLast.miss
    /\ nsLast.rdata # NoData
    /\ ~SomeValidatorAccepts(NewChunk(nsLast.addr, nsLast.rdata))
    /\ nsLast.err = "ErrInvalidChunk"

\* the last operation was a Put of which the registered validators reject
\* some chunk
PutRejected(call) ==
    /\ call.op = "Put"
    /\ \E i \in 1..Len(call.chs) : ~valid(nsValidators, call.chs[i])

\* C11: a netstore Put validates all its chunks before storing any: when a
\* chunk is rejected the call returns ErrInvalidChunk, the Put of the wrapped
\* store is not called and the wrapped store holds what it held before
C11_PutValidatesAllBeforeStoring ==
    [][PutRejected(nsLast') =>
          /\ nsLast'.err = "ErrInvalidChunk"
          /\ nsLast'.put = "none"
          /\ nsStore' = nsStore
      ]_vars

\* a Put of two chunks, the first accepted and absent from the store, the
\* second rejected
C11_Witness ==
    /\ nsLast.op = "Put"
    /\ Len(nsLast.chs) = 2
    /\ valid(nsValidators, nsLast.chs[1])
    /\ ~valid(nsValidators, nsLast.chs[2])
    /\ nsStore.store[nsLast.chs[1][1]] = NoData
    /\ nsLast.err = "ErrInvalidChunk"

(***************************************************************************)
(* Properties of PushChunkToClosest.                                       *)
(***************************************************************************)
EventIdx == 1..Len(psEvents)
Returned == push.pc \in {"return", "done"}
\* the events of an attempt that failed on its stream
StreamFailures == {"NewStreamErr", "SendErr", "RecvErr"}
\* the events of an attempt that failed
Failures == StreamFailures \cup {"ReserveErr"}
\* the events that start an attempt to a peer
AttemptEvents == {"Reserve", "ReserveErr", "NewStream", "NewStreamErr"}

Blocklisted(peer) ==
    \E k \in EventIdx : psEvents[k] = Ev("Blocklist", peer, blocklistDuration)

\* C2 as stated: a peer whose attempt failed with deadline-exceeded or with
\* a stream error (opening the stream, sending, receiving) is blocklisted
\* for blocklistDuration
C2_Original ==
    \A k \in EventIdx :
        psEvents[k].ev \in StreamFailures => Blocklisted(psEvents[k].peer)

\* C2 (amended): a peer is blocklisted, for blocklistDuration, exactly when
\* sending the delivery or receiving the receipt failed with
\* deadline-exceeded; a failure to open the stream and any other stream
\* error do not blocklist; after each of these failures the push goes on to
\* the next iteration with lastErr set, and once a peer's receipt carries
\* the chunk's address the call ends with that receipt unless Credit fails
C2_BlocklistOnDeadlineAndContinue ==
    [][/\ \A k \in 1..Len(psEvents') :
            LET e == psEvents'[k] IN
            /\ (e.ev \in {"SendErr", "RecvErr"} /\ e.err = "DeadlineExceeded") =>
                  /\ k + 2 <= Len(psEvents')
                  /\ psEvents'[k + 1] = Ev("Reset", e.peer, 0)
                  /\ psEvents'[k + 2] = Ev("Blocklist", e.peer, blocklistDuration)
            /\ e.ev = "Blocklist" =>
                  /\ k > 2
                  /\ e.val = blocklistDuration
                  /\ psEvents'[k - 2].ev \in {"SendErr", "RecvErr"}
                  /\ psEvents'[k - 2].err = "DeadlineExceeded"
                  /\ psEvents'[k - 2].peer = e.peer
       /\ (/\ Len(psEvents') > Len(psEvents)
           /\ psEvents'[Len(psEvents) + 1].ev \in StreamFailures) =>
              /\ push'.pc = "loop"
              /\ push'.i = push.i + 1
              /\ push'.lastErr # NoErr
              /\ push'.lastErr[2] = push.peer
              /\ push'.res = "none"
       /\ (push.pc = "check" /\ push.receipt = psChunk) => push'.pc = "credit"
       /\ push.pc = "credit" =>
              \/ /\ push'.res = "receipt"
                 /\ push'.resAddr = psChunk
                 /\ push'.pc = "return"
              \/ /\ push'.res = "error"
                 /\ psEvents'[Len(psEvents')].ev = "CreditErr"
      ]_vars

\* a first peer timed out and was blocklisted, and the call returned the
\* receipt of the second peer
C2_Witness ==
    /\ push.pc = "done"
    /\ push.res = "receipt"
    /\ Len(push.skipPeers) = 2
    /\ Blocklisted(push.skipPeers[1])
    /\ \E k \in EventIdx : psEvents[k] = Ev("Receipt", push.skipPeers[2], psChunk)

\* C3: a receipt whose address differs from the chunk's address ends the
\* call: it returns an error, no peer is attempted after that receipt and
\* no Credit is called, for that peer or for any other
C3_WrongReceiptFailsPermanently ==
    \A k \in EventIdx :
        (psEvents[k].ev = "Receipt" /\ psEvents[k].val # psChunk) =>
            /\ push.pc \in {"tag", "check", "return", "done"}
            /\ Returned => (push.res = "error" /\ push.resAddr = ZeroAddress)
            /\ push.skipPeers[Len(push.skipPeers)] = psEvents[k].peer
            /\ \A j \in EventIdx :
                  /\ psEvents[j].ev \notin {"Credit", "CreditErr"}
                  /\ j > k => psEvents[j].ev \notin AttemptEvents \cup {"Receipt"}

\* a call ended with the error of an invalid receipt
C3_Witness ==
    /\ push.pc = "done"
    /\ push.err = <<"invalid receipt", push.peer>>
    /\ \E k \in EventIdx : psEvents[k].ev = "Receipt" /\ psEvents[k].val # psChunk

\* C4: Credit is called at most once per call, for a peer whose receipt
\* carries the chunk's address and with the price reserved for that peer;
\* a peer whose attempt failed is never credited
C4_CreditOnceForReceiptAtReservedPrice ==
    /\ Cardinality({k \in EventIdx : psEvents[k].ev \in {"Credit", "CreditErr"}}) <= 1
    /\ \A k \in EventIdx :
          psEvents[k].ev = "Credit" =>
              /\ \E j \in 1..(k - 1) :
                    psEvents[j] = Ev("Receipt", psEvents[k].peer, psChunk)
              /\ \E j \in 1..(k - 1) :
                    psEvents[j] = Ev("Reserve", psEvents[k].peer, psEvents[k].val)
              /\ \A j \in EventIdx :
                    psEvents[j].ev \in Failures => psEvents[j].peer # psEvents[k].peer
    /\ \A k \in EventIdx :
          psEvents[k].ev = "CreditErr" =>
              \A j \in EventIdx :
                  psEvents[j].ev \in Failures => psEvents[j].peer # psEvents[k].peer

\* after the failure of a first peer, a second one was credited
C4_Witness ==
    /\ push.pc = "done"
    /\ \E k \in EventIdx : psEvents[k].ev = "Credit"
    /\ \E k \in EventIdx : psEvents[k].ev \in Failures

\* no stream was opened and neither Reserve nor Credit was called
NoStreamReserveCredit ==
    \A k \in EventIdx : psEvents[k].ev \in {"TagInc", "TagIncErr"}

\* C5 as stated: when ClosestPeer reports ErrWantSelf on the first attempt,
\* the call returns a receipt with the chunk's address, without opening a
\* stream and without calling Reserve or Credit
C5_Original ==
    push.peerErr = "ErrWantSelf" =>
        /\ push.res = "receipt"
        /\ push.resAddr = psChunk
        /\ NoStreamReserveCredit

\* C5 (amended): when ClosestPeer reports ErrWantSelf on the first attempt,
\* the call returns a receipt with the chunk's address, or the error of the
\* tag's Inc when incrementing the sent counter fails; in both cases no
\* stream is opened, no peer attempted and neither Reserve nor Credit called
C5_SelfClosestReceiptWithoutStream ==
    push.peerErr = "ErrWantSelf" =>
        /\ Returned
        /\ push.i = 0
        /\ push.skipPeers = <<>>
        /\ NoStreamReserveCredit
        /\ \/ /\ push.res = "receipt"
              /\ push.resAddr = psChunk
              /\ \A k \in EventIdx : psEvents[k].ev # "TagIncErr"
           \/ /\ push.res = "error"
              /\ push.err = <<"tag inc">>
              /\ psEvents = <<ErrEv("TagIncErr", ZeroAddress, "ErrTag")>>

\* the node is the closest and the call returned a receipt for the chunk
C5_Witness ==
    /\ push.pc = "done"
    /\ push.peerErr = "ErrWantSelf"
    /\ push.res = "receipt"
    /\ push.resAddr = psChunk
    /\ connected # {}

\* C6 as stated: the call ends with a receipt, with the context's error, or
\* with the error of the last failed attempt
C6_Original ==
    push.pc = "done" =>
        \/ push.res = "receipt"
        \/ push.err = <<"context canceled">>
        \/ (push.lastErr # NoErr /\ push.err = push.lastErr)

\* C6 (amended): the call ends with a receipt for the chunk; with the
\* context's error; with lastErr after maxPeers iterations; or at once with
\* the error of the peer selection (no further peer: ErrNotFound), of
\* Reserve, of the tag's Inc, of an invalid receipt or of Credit
C6_TerminalOutcomes ==
    push.pc = "done" =>
        \/ (push.res = "receipt" /\ push.resAddr = psChunk /\ push.err = NoErr)
        \/ (push.res = "error" /\ push.err = <<"context canceled">>)
        \/ /\ push.res = "error"
           /\ push.i = maxPeers
           /\ push.lastErr # NoErr
           /\ push.err = push.lastErr
           /\ push.err[1] \in {"new stream", "chunk deliver", "receive receipt"}
           /\ psEvents[Len(psEvents) - Len(RunDefers(SelectSeq(psEvents,
                  LAMBDA e : e.ev \in {"Reserve", "NewStream"})))].ev
                      \in StreamFailures \cup {"Reset", "Blocklist"}
        \/ /\ push.res = "error"
           /\ push.i < maxPeers
           /\ push.err[1] \in {"closest peer", "reserve balance", "tag inc",
                               "invalid receipt", "credit"}

\* every one of maxPeers attempts failed and the call returned the last error
C6_Witness ==
    /\ push.pc = "done"
    /\ push.i = maxPeers
    /\ push.err = push.lastErr
    /\ Len(push.skipPeers) = maxPeers

(***************************************************************************)
(* Properties of the push-sync handler.                                    *)
(***************************************************************************)
HEventIdx == 1..Len(hEvents)
\* some call of the handler failed, or the chunk or the receipt was invalid
HandlerFailed == \E k \in HEventIdx : hEvents[k].err # "nil"
InboundResets == {k \in HEventIdx : hEvents[k].ev = "InboundReset"}
InboundCloses == {k \in HEventIdx : hEvents[k].ev = "InboundFullClose"}

\* C7: the handler resets the inbound stream exactly when it returns an
\* error, at whatever step a call failed or a check rejected, and fully
\* closes it exactly when it returns without error; it does one of the two
\* once, as its last act, and never both
C7_InboundResetOnErrorCloseOtherwise ==
    /\ handler.pc # "done" => (InboundResets = {} /\ InboundCloses = {})
    /\ handler.pc \in {"return", "done"} => (HandlerFailed <=> handler.err # NoErr)
    /\ handler.pc = "done" =>
          /\ Cardinality(InboundResets \cup InboundCloses) = 1
          /\ InboundResets \cup InboundCloses = {Len(hEvents)}
          /\ HandlerFailed <=> InboundResets # {}
          /\ ~HandlerFailed <=> InboundCloses # {}

\* the handler forwarded the chunk, received a wrong receipt and reset the
\* inbound stream
C7_Witness ==
    /\ handler.pc = "done"
    /\ handler.err = <<"invalid receipt", handler.peer>>
    /\ InboundResets # {}

(***************************************************************************)
(* Properties of the MockStorer.                                           *)
(***************************************************************************)
\* the addresses of the chunks of chs that the store does not hold and whose
\* proximity order to the base address is bin
NovelInBin(m, chs, bin) ==
    {chs[i][1] : i \in {k \in 1..Len(chs) :
                           /\ ~MockHas(m, chs[k][1])
                           /\ Proximity(chs[k][1], m.baseAddress) = bin}}

\* C12: a Put of the local store returns one existence flag per chunk, in
\* argument order; flag i is true exactly when the address of chunk i was
\* stored before the call, and every novel chunk increments the id of bin
\* PO(chunk, base) by one
C12_Original ==
    [][(storerLast'.op = "Put" /\ storerLast'.err = "nil") =>
          /\ Len(storerLast'.exist) = Len(storerLast'.chs)
          /\ \A i \in 1..Len(storerLast'.chs) :
                storerLast'.exist[i] = MockHas(storer, storerLast'.chs[i][1])
          /\ \A bin \in 0..(MaxBins - 1) :
                LastPullSubscriptionBinID(storer', bin) =
                    LastPullSubscriptionBinID(storer, bin)
                        + Cardinality(NovelInBin(storer, storerLast'.chs, bin))
      ]_vars

\* the validator of the store rejects some chunk of the call
StorerRejects(m, call) ==
    /\ call.op = "Put"
    /\ m.validator # NoValidator
    /\ \E i \in 1..Len(call.chs) : ~Validate(m.validator, call.chs[i])

\* C13: when the validator rejects a chunk of a Put of the local store, the
\* call fails with ErrInvalidChunk, returns no existence list and leaves the
\* store holding exactly the chunks it held before
C13_Original ==
    [][StorerRejects(storer, storerLast') =>
          /\ storerLast'.err = "ErrInvalidChunk"
          /\ storerLast'.exist = <<>>
          /\ storer'.store = storer.store
      ]_vars

\* the pin counter of an address: 0 when PinInfo does not find it
PinCount(a, pa, pc) == PinInfo(a, pa, pc).count

RECURSIVE Occurrences(_, _)
Occurrences(a, addrs) ==
    IF addrs = <<>> THEN 0
    ELSE (IF Head(addrs) = a THEN 1 ELSE 0) + Occurrences(a, Tail(addrs))

\* pinnedAddress and pinnedCounter are aligned, every listed counter is at
\* least 1, an address is listed once exactly while its counter is at least
\* 1, and PinInfo finds exactly the listed addresses
PinsConsistent(pa, pc) ==
    /\ Len(pa) = Len(pc)
    /\ \A i \in 1..Len(pc) : pc[i] >= 1
    /\ \A a \in Addrs :
          /\ Cardinality({i \in 1..Len(pa) : pa[i] = a})
                = IF PinCount(a, pa, pc) >= 1 THEN 1 ELSE 0
          /\ (PinInfo(a, pa, pc).err = "nil")
                <=> (\E i \in 1..Len(pa) : PinnedChunks(pa, pc)[i].Address = a)
    /\ \A i \in 1..Len(pa) :
          PinnedChunks(pa, pc)[i].PinCounter = PinCount(pa[i], pa, pc)

\* C14: after any sequence of Set(ModeSetPin) and Set(ModeSetUnpin) a pin
\* counter is never negative: a pin adds one, an unpin of a pinned address
\* subtracts one, an unpin of an address that is not pinned changes nothing,
\* and an address is listed by PinnedChunks and found by PinInfo exactly while
\* its counter is at least 1, once, the two slices staying aligned
C14_PinCounters ==
    [][/\ ~pinLast'.panic
       /\ PinsConsistent(pinnedAddress', pinnedCounter')
       /\ \A a \in Addrs :
             LET before == PinCount(a, pinnedAddress, pinnedCounter)
                 after == PinCount(a, pinnedAddress', pinnedCounter')
                 n == Occurrences(a, pinLast'.addrs)
             IN
             after = IF pinLast'.mode = "ModeSetPin" THEN before + n
                     ELSE IF pinLast'.mode = "ModeSetUnpin"
                     THEN (IF before >= n THEN before - n ELSE 0)
                     ELSE before
      ]_vars

\* address 1 was unpinned twice in one call while pinned once and listed
\* before address 2, which stays pinned
C14_Witness ==
    /\ pinLast.mode = "ModeSetUnpin"
    /\ pinLast.addrs = <<1, 1>>
    /\ pinnedAddress = <<2>>
    /\ pinnedCounter = <<MaxPin>>
    /\ PinInfo(1, pinnedAddress, pinnedCounter).err = "ErrNotFound"

(***************************************************************************)
(* Properties of the pull subscriptions.                                   *)
(***************************************************************************)
\* C15: the descriptors that one SubscribePull call delivers on its channel
\* are strictly increasing in bin id: none is delivered twice and none out of
\* order, whether or not the subscription waits for more chunks
C15_Original ==
    \A s \in SubIds :
        \A k \in 1..(Len(subs[s].delivered) - 1) :
            subs[s].delivered[k] < subs[s].delivered[k + 1]

\* C16: cancelling a pull subscription is idempotent: a call of the stop
\* function after the first has no effect and does not fail
C16_Original == pullPanic # "stop"

\* the goroutine of subscription s can take a step without its consumer
Runnable(s) ==
    \/ subs[s].pc \in {"start", "lock2"} /\ pullMtx = Unlocked
    \/ subs[s].pc \in {"loop1", "loop2"}
          /\ (subs[s].i > Len(subs[s].items) \/ Cancelled(s))
    \/ subs[s].pc = "wait" /\ (Cancelled(s) \/ morePull)

\* C17: Close unblocks every open pull subscription: once, after Close, no
\* goroutine can take a further step, every subscription goroutine has
\* terminated and its descriptor channel is closed
C17_Original ==
    (quit /\ pullPanic = "none" /\ \A s \in SubIds : ~Runnable(s)) =>
        \A s \in SubIds :
            subs[s].pc # "none" => subs[s].pc = "exited" /\ subs[s].c = "closed"

(***************************************************************************)
(* Properties of the joiner.                                               *)
(***************************************************************************)
\* a file of more than one chunk: its root chunk holds addresses
ManyChunks == jFile > ChunkSize

\* the store holds every chunk of the file
AllStored == jStore = Trie(jFile).chunks

\* C18: reading the joiner's reader to the end terminates: once the payload
\* of every leaf has been yielded in order and the goroutine has returned,
\* dataC is closed so that Read returns EOF; and when Read returns EOF the
\* bytes read are the bytes of the file, as many as the span of the root chunk
C18_Original ==
    (ManyChunks /\ AllStored) =>
        /\ (prod.pc = "returned" /\ prod.sent = FileBytes(jFile)) => jClosed
        /\ reader.err = "EOF" =>
              /\ reader.out = FileBytes(jFile)
              /\ Len(reader.out) = Trie(jFile).root.span

\* C19: when fetching a chunk fails while the joiner walks the trie, the
\* error is surfaced to the caller of Read: Read does not return EOF
C19_Original ==
    (ManyChunks /\ prod.err # "nil") => reader.err # "EOF"

(***************************************************************************)
(* Properties of the hash-trie writer.                                     *)
(***************************************************************************)
RECURSIVE SeqSum(_)
SeqSum(s) == IF s = <<>> THEN 0 ELSE Head(s) + SeqSum(Tail(s))

\* C20: for any number of accepted ChainWrites, the chunk stored under the
\* reference that Sum returns has a span equal to the sum of the spans of
\* all written records, also when subtrees are carried up without a wrapper
C20_RootSpanIsTotal ==
    (tLast.op = "Sum" /\ tWritten # <<>>) =>
        /\ tLast.err = "nil"
        /\ trie.store[tLast.ref].span = SeqSum(tWritten)

\* Sum after one more write than a level holds, of spans that differ: the
\* last record is carried up beside the chunk that wraps the others
C20_Witness ==
    /\ tLast.op = "Sum"
    /\ tLast.err = "nil"
    /\ Len(tWritten) = TrieBranching + 1
    /\ tWritten[1] = 2
    /\ tWritten[Len(tWritten)] = 1
    /\ Len(trie.store[tLast.ref].refs) = 2

RECURSIVE Power(_, _)
Power(b, e) == IF e = 0 THEN 1 ELSE b * Power(b, e - 1)

\* the number of writes after which a reference reaches the highest level:
\* 4^7 = 16384 for the branching 4 and the highest level 8 of the program
TrieCapacity == Power(TrieBranching, TrieMaxLevel - 1)

\* the writer after the accepted writes alone
RECURSIVE WriterAfter(_)
WriterAfter(spans) ==
    IF spans = <<>> THEN NoTrie
    ELSE ChainWrite(WriterAfter(SubSeq(spans, 1, Len(spans) - 1)),
                    spans[Len(spans)]).t

\* C21: the hash-trie writer accepts exactly TrieCapacity ChainWrites and
\* answers every later one with ErrTrieFull; a Sum that follows a rejected
\* write succeeds and returns the reference, of the same chunk, that Sum
\* returns for the accepted writes alone
C21_TrieFull ==
    /\ tLast.op = "ChainWrite" =>
          (tLast.err = (IF tCalls > TrieCapacity THEN "ErrTrieFull" ELSE "nil"))
    /\ Len(tWritten) = (IF tCalls > TrieCapacity THEN TrieCapacity ELSE tCalls)
    /\ (tLast.op = "Sum" /\ tCalls > TrieCapacity) =>
          LET r == Sum(WriterAfter(tWritten)) IN
          /\ tLast.err = "nil"
          /\ tLast.ref = r.ref
          /\ trie.store[tLast.ref] = r.t.store[r.ref]

\* Sum after the write that the full trie rejected
C21_Witness ==
    /\ tLast.op = "Sum"
    /\ tLast.err = "nil"
    /\ tCalls = TrieCapacity + 1
    /\ Len(tWritten) = TrieCapacity

(***************************************************************************)
(* Properties of the peer set.                                             *)
(***************************************************************************)
\* the indices at which the slice holds the peer
Places(s, p) == {i \in 1..Len(s.peers) : s.peers[i] = p}

\* the peers of the slice that belong to bin i
InBin(s, i) == {p \in SlPeers : Places(s, p) # {} /\ SlPO(p) = i}

\* C22: Add of a peer that is in the set changes neither the slice nor the
\* cursors of the bins, and after every Add the set holds the peer exactly
\* once, between the cursor of its bin and the end of the bin
C22_AddTwiceIsAddOnce ==
    [][slLast'.op = "Add" =>
          LET p == slLast'.peer IN
          /\ Cardinality(Places(pslice', p)) = 1
          /\ \A i \in Places(pslice', p) :
                /\ i > pslice'.bins[SlPO(p)]
                /\ i <= BinEnd(pslice', SlPO(p))
          /\ Exists(pslice, p) => pslice' = pslice]_vars

\* Add of a peer that is in the set, beside another peer of its bin and
\* before a peer of a deeper bin
C22_Witness ==
    /\ slLast.op = "Add"
    /\ slLast.found
    /\ Cardinality(InBin(pslice, SlPO(slLast.peer))) = 2
    /\ \E i \in 0..(SlBins - 1) : i > SlPO(slLast.peer) /\ InBin(pslice, i) # {}

\* C23: ShallowestEmpty returns the smallest bin that holds no peer, and
\* none exactly when every bin holds a peer
C23_ShallowestEmptyIsSmallestEmptyBin ==
    slLast.op = "ShallowestEmpty" =>
        LET empty == {i \in 0..(SlBins - 1) : InBin(pslice, i) = {}} IN
        /\ slLast.none <=> empty = {}
        /\ empty # {} => /\ slLast.bin \in empty
                         /\ \A j \in empty : slLast.bin <= j

\* ShallowestEmpty of a set whose bin 1 is the only empty one
C23_Witness ==
    /\ slLast.op = "ShallowestEmpty"
    /\ ~slLast.none
    /\ slLast.bin = 1
    /\ \A i \in 0..(SlBins - 1) : i # 1 => InBin(pslice, i) # {}

\* every peer of the set is visited once, with its bin
VisitsAll(s, visits) ==
    /\ Len(visits) = Len(s.peers)
    /\ {visits[k][1] : k \in 1..Len(visits)} = {s.peers[i] : i \in 1..Len(s.peers)}
    /\ \A k \in 1..Len(visits) : visits[k][2] = SlPO(visits[k][1])

\* C24: with a function that neither stops nor jumps, EachBin visits every
\* peer of the set once, the peers of a deeper bin before those of a
\* shallower one, and EachBinRev visits them once, the peers of a shallower
\* bin before those of a deeper one; a removed peer is not in the set
C24_IteratorsVisitAllByBin ==
    /\ (slLast.op = "EachBin" /\ slLast.fn = "continue") =>
          /\ VisitsAll(pslice, slLast.visits)
          /\ \A k \in 1..(Len(slLast.visits) - 1) :
                slLast.visits[k][2] >= slLast.visits[k + 1][2]
    /\ (slLast.op = "EachBinRev" /\ slLast.fn = "continue") =>
          /\ VisitsAll(pslice, slLast.visits)
          /\ \A k \in 1..(Len(slLast.visits) - 1) :
                slLast.visits[k][2] <= slLast.visits[k + 1][2]
    /\ slLast.op = "Remove" => ~Exists(pslice, slLast.peer)

\* EachBin over a set with peers in the deepest bin and in bin 0 and none
\* in between
C24_Witness ==
    /\ slLast.op = "EachBin"
    /\ slLast.fn = "continue"
    /\ Len(slLast.visits) = 3
    /\ slLast.visits[1][2] = SlBins - 1
    /\ slLast.visits[3][2] = 0
    /\ InBin(pslice, 1) = {}

(***************************************************************************)
(* Properties of the metrics collector.                                    *)
(***************************************************************************)
\* C25: the total connection duration persisted for a peer never decreases:
\* what is persisted after the peer was finalized and connected again
\* includes the duration persisted from its earlier sessions
C25_Original ==
    [][shedDb'.connTotalDuration >= shedDb.connTotalDuration]_vars

(***************************************************************************)
(* Further properties of push-sync.                                        *)
(***************************************************************************)
\* C26: a call of PushChunkToClosest increments the sent counter of the tag
\* at most once, and a call that returns an error, as on a receipt with a
\* wrong address or on a failed Credit, leaves the counter as it was
C26_Original ==
    /\ tagSent <= 1
    /\ (Returned /\ push.res = "error") => tagSent = 0

(***************************************************************************)
(* Further properties of the push-sync handler.                            *)
(***************************************************************************)
\* the handler stored the chunk with success
PutDone(k) == hEvents[k].ev = "Put" /\ hEvents[k].err = "nil"
\* the goroutine of the delivery callback was started
CallbackFired(k) == hEvents[k].ev = "GoCallback"

\* C27: the delivery callback of the validator is fired exactly when the
\* handler has stored the chunk with success: only after the Put, and, once
\* the handler is done, whenever a callback was given and the Put succeeded
C27_Original ==
    /\ \A k \in HEventIdx :
          CallbackFired(k) => \E j \in 1..(k - 1) : PutDone(j)
    /\ (handler.pc = "done" /\ handler.callback) =>
          ((\E j \in HEventIdx : PutDone(j)) <=> (\E k \in HEventIdx : CallbackFired(k)))


\* the handler called storer.Put, with or without success
Stores == \E k \in HEventIdx : hEvents[k].ev = "Put"
\* the handler reserved, or tried to reserve, the price of a forward
Forwards == \E k \in HEventIdx : hEvents[k].ev = "Reserve"
\* a receipt for the chunk was written to the sender with success
ReceiptSent(k) == hEvents[k] = Ev("SendReceipt", handler.p, handler.chunk[1])
\* the sender was debited, or the Debit failed
DebitCalled(k) == hEvents[k].ev = "Debit"

\* C28: when the handler stores the chunk itself it calls Put, then sends
\* the receipt of the chunk to the sender, then debits the sender the price
\* of the chunk: nothing is sent and nobody is debited after a failed Put,
\* and the sender is debited only after the receipt was sent with success
C28_StoreThenReceiptThenDebit ==
    Stores =>
        /\ ~Forwards
        /\ Cardinality({k \in HEventIdx : hEvents[k].ev = "Put"}) = 1
        /\ \A k \in HEventIdx :
              hEvents[k].ev = "SendReceipt" =>
                  /\ hEvents[k].peer = handler.p
                  /\ hEvents[k].err = "nil" => hEvents[k].val = handler.chunk[1]
                  /\ k > 1 /\ PutDone(k - 1)
        /\ \A k \in HEventIdx :
              DebitCalled(k) =>
                  /\ hEvents[k].peer = handler.p
                  /\ hEvents[k].err = "nil" => hEvents[k].val = Price(handler.chunk[1])
                  /\ k > 1 /\ ReceiptSent(k - 1)
        /\ \A k \in HEventIdx :
              (hEvents[k].ev = "Put" /\ ~PutDone(k)) =>
                  \A j \in HEventIdx :
                      j > k => hEvents[j].ev \notin {"SendReceipt", "Debit"}

\* the sender is the closest peer: the handler stored the chunk, sent the
\* receipt, debited the sender and returned without error
C28_Witness ==
    /\ handler.pc = "done"
    /\ handler.err = NoErr
    /\ handler.peer = handler.p
    /\ \E k \in HEventIdx :
          /\ PutDone(k)
          /\ ReceiptSent(k + 1)
          /\ hEvents[k + 2] = Ev("Debit", handler.p, Price(handler.chunk[1]))

\* C29: when the handler forwards the chunk it credits the downstream peer
\* only after a receipt from it with the address of the chunk, relays that
\* receipt to the sender only after the Credit, and debits the sender only
\* after the relay; it does not store the chunk and opens at most one
\* stream, to one peer
C29_ForwardCreditRelayDebit ==
    Forwards =>
        /\ ~Stores
        /\ Cardinality({k \in HEventIdx : hEvents[k].ev = "Reserve"}) = 1
        /\ Cardinality({k \in HEventIdx : hEvents[k].ev = "NewStream"}) <= 1
        /\ Cardinality({k \in HEventIdx : hEvents[k].ev = "SendDelivery"}) <= 1
        /\ \A k \in HEventIdx :
              hEvents[k].ev \in {"NewStream", "SendDelivery", "Receipt", "Credit"} =>
                  hEvents[k].peer = handler.peer
        /\ \A k \in HEventIdx :
              hEvents[k].ev = "Credit" =>
                  /\ k > 1
                  /\ hEvents[k - 1] = Ev("Receipt", handler.peer, handler.chunk[1])
                  /\ hEvents[k].err = "nil" => hEvents[k].val = handler.receiptPrice
        /\ \A k \in HEventIdx :
              hEvents[k].ev = "SendReceipt" =>
                  /\ k > 1
                  /\ hEvents[k - 1] = Ev("Credit", handler.peer, handler.receiptPrice)
                  /\ hEvents[k].peer = handler.p
                  /\ hEvents[k].err = "nil" => hEvents[k].val = handler.chunk[1]
        /\ \A k \in HEventIdx :
              DebitCalled(k) =>
                  /\ k > 1 /\ ReceiptSent(k - 1)
                  /\ hEvents[k].peer = handler.p

\* the handler forwarded the chunk, credited the peer, relayed the receipt,
\* debited the sender and returned without error
C29_Witness ==
    /\ handler.pc = "done"
    /\ handler.err = NoErr
    /\ handler.peer # handler.p
    /\ \E k \in HEventIdx :
          /\ hEvents[k] = Ev("Receipt", handler.peer, handler.chunk[1])
          /\ hEvents[k + 1] = Ev("Credit", handler.peer, handler.receiptPrice)
          /\ ReceiptSent(k + 2)
          /\ hEvents[k + 3] = Ev("Debit", handler.p, Price(handler.chunk[1]))


\* the connected peers outside skip
Candidates(skip) == {q \in connected : ~InSeq(q, skip)}
\* peer is a candidate and no candidate is strictly closer to the chunk
ClosestCandidate(peer, skip) ==
    /\ peer \in Candidates(skip)
    /\ \A q \in Candidates(skip) : DistanceCmp(psChunk, q, peer) # 1
\* the peers that were skipped when the peer of this iteration was selected
SkippedBefore == SubSeq(push.skipPeers, 1, Len(push.skipPeers) - 1)

\* C30: closestPeer(addr, skipPeers) never returns a peer of skipPeers; the
\* peer it returns is connected and no connected peer outside skipPeers is
\* strictly closer to addr; it fails with ErrNotFound exactly when every
\* connected peer is in skipPeers.  Stated of the call on the state's peers
\* and of the peer a later iteration of PushChunkToClosest has selected
C30_ClosestPeerOutsideSkipPeers ==
    /\ LET r == closestPeer(connected, psChunk, push.skipPeers) IN
          /\ r.err \in {"nil", "ErrNotFound"}
          /\ r.err = "ErrNotFound" <=> Candidates(push.skipPeers) = {}
          /\ r.err = "nil" => ClosestCandidate(r.peer, push.skipPeers)
    /\ (push.pc = "reserve" /\ Len(push.skipPeers) > 1) =>
          ClosestCandidate(push.peer, SkippedBefore)
    /\ (Returned /\ Len(push.skipPeers) > 0 /\ push.peerErr = "ErrNotFound") =>
          Candidates(push.skipPeers) = {}

\* a later iteration selected a peer while a skipped peer was closer to the
\* chunk and another candidate was farther from it
C30_Witness ==
    /\ push.pc = "reserve"
    /\ Len(push.skipPeers) > 1
    /\ \E q \in connected :
          /\ InSeq(q, SkippedBefore)
          /\ DistanceCmp(psChunk, q, push.peer) = 1
    /\ \E q \in Candidates(SkippedBefore) :
          DistanceCmp(psChunk, push.peer, q) = 1


(***************************************************************************)
(* Further properties of the metrics collector.                            *)
(***************************************************************************)
\* the counters of the peer that the claims are about
CounterFields(cs) ==
    <<cs.loggedIn, cs.lastSeenTimestamp, cs.sessionConnDuration,
      cs.connTotalDuration, cs.sessionConnDirection, cs.sessionConnRetry,
      cs.dirty>>

\* C34: a PeerLogIn recorded for a peer that is logged in and a PeerLogOut
\* recorded for a peer that is not logged in change none of the counters of
\* the peer; a PeerLogIn for a peer that is not logged in logs it in and a
\* PeerLogOut for a peer that is logged in logs it out
C34_LogInLogOutIdempotent ==
    [][/\ mLast'.op = "PeerLogIn" =>
             /\ counters'.loggedIn
             /\ LoadOrStore(counters).loggedIn =>
                   CounterFields(counters') = CounterFields(LoadOrStore(counters))
       /\ mLast'.op = "PeerLogOut" =>
             /\ ~counters'.loggedIn
             /\ ~LoadOrStore(counters).loggedIn =>
                   CounterFields(counters') = CounterFields(LoadOrStore(counters))
      ]_vars

\* a PeerLogIn at a later time was recorded for a peer that is logged in and
\* had a session before: the time of its login is still the earlier one
C34_Witness ==
    /\ mLast.op = "PeerLogIn"
    /\ counters.loggedIn
    /\ counters.lastSeenTimestamp < mLast.t
    /\ counters.connTotalDuration > 0

\* C35: after PeerLogIn and PeerLogOut records the total connection duration
\* of the peer is the sum of the durations of its completed sessions, and a
\* Snapshot at time t of a peer that is logged in reports that sum plus
\* t minus the time of the login, and leaves the counters as they are
C35_TotalIsSumOfSessions ==
    [][~mSessions'.finalized =>
          /\ counters'.present =>
                /\ counters'.connTotalDuration = mSessions'.sum
                /\ counters'.loggedIn = mSessions'.open
                /\ counters'.loggedIn => counters'.lastSeenTimestamp = mSessions'.login
          /\ mLast'.op = "Snapshot" =>
                /\ counters' = counters
                /\ counters.present =>
                      mLast'.snapshot[1].ConnectionTotalDuration =
                          IF mSessions.open
                          THEN mSessions.sum + (mLast'.t - mSessions.login)
                          ELSE mSessions.sum
      ]_vars

\* a Snapshot of a peer in its second session, taken after the login
C35_Witness ==
    /\ ~mSessions.finalized
    /\ mLast.op = "Snapshot"
    /\ mSessions.open
    /\ mSessions.sum > 0
    /\ mLast.t > mSessions.login
    /\ mLast.snapshot[1].ConnectionTotalDuration
          = mSessions.sum + (mLast.t - mSessions.login)


(***************************************************************************)
(* Further properties of the joiner.                                       *)
(***************************************************************************)
\* NewSimpleJoinerJob has made the job
JobMade == prod.pc \notin {"new", "panic"}

\* ceil(log_k(num / den)) for num >= den: the least n with k^n >= num / den
CeilLog(num, den, k) ==
    CHOOSE n \in 0..JobLevels :
        /\ Power(k, n) * den >= num
        /\ \A m \in 0..(n - 1) : Power(k, m) * den < num

FullDeepTrie == jFile = Branches * Branches * ChunkSize
\* seq begins with pre
IsPrefix(pre, seq) == Len(pre) <= Len(seq) /\ SubSeq(seq, 1, Len(pre)) = pre

\* C32 as stated, for a trie of three levels: the joiner yields the payloads
\* of the leaves in the order of the file, each once, and when start has
\* returned over a store that holds every chunk it has yielded the payload
\* of every leaf
C32_Original ==
    (AllStored /\ FullDeepTrie) =>
        /\ IsPrefix(prod.sent, FileBytes(jFile))
        /\ prod.pc = "returned" => prod.sent = FileBytes(jFile)


\* a step of the goroutine of the job, the send on dataC being the step it
\* takes together with a Read
ProducerStep ==
    NewSimpleJoinerJob \/ JoinerStart \/ JoinerDescend \/ JoinerSent \/ ReadData
\* the goroutine has ended
ProducerEnded == prod.pc \in {"returned", "failed", "panic"}

\* C38 as stated: once the consumer has stopped reading, Read having
\* returned the error of the cancelled context, the goroutine of the job has
\* ended or has a step to take: it is not blocked on dataC
C38_Original ==
    (reader.pc = "done" /\ reader.err = "context canceled") =>
        (ProducerEnded \/ ENABLED ProducerStep)


\* C39 as stated: the bytes the Reads have returned are the bytes the
\* goroutine has handed over, none lost and none invented, and the n of a
\* Read that received the data of a leaf is the number of bytes copied
C39_Original ==
    /\ reader.out = prod.sent
    /\ prod.pc = "sent" => reader.n = Min(Len(reader.b), Len(prod.payload))


(***************************************************************************)
(* Further properties of the pull subscriptions.                           *)
(***************************************************************************)
\* C36 as stated: a subscription whose goroutine has returned, having been
\* stopped, cancelled or closed while it offered a descriptor, does not hold
\* the mutex of the store, so that MorePull and the other calls that lock
\* it can go on
C36_Original ==
    \A s \in SubIds :
        subs[s].pc = "exited" => pullMtx # s


(***************************************************************************)
(* Push-sync as a whole: a node that makes one call of PushChunkToClosest  *)
(* or serves one inbound stream with the handler.                          *)
(***************************************************************************)
NextPushSync ==
    \/ handler.pc = "idle" /\ NextPush
    \/ push.pc = "idle" /\ NextHandler

SpecPushSync == InitPushSync /\ [][NextPushSync]_vars

\* how often e is among the events
EventCount(e, events) == Cardinality({k \in 1..Len(events) : events[k] = e})
\* the Reserves that succeeded and the Releases among the events, as pairs
\* of a peer and a price
Accounted(events) ==
    {<<events[k].peer, events[k].val>> :
        k \in {j \in 1..Len(events) :
                  events[j].ev \in {"Reserve", "Release"} /\ events[j].err = "nil"}}
\* every Reserve of the events that succeeded has its one Release
AllReleased(events) ==
    \A pv \in Accounted(events) :
        EventCount(Ev("Release", pv[1], pv[2]), events)
            = EventCount(Ev("Reserve", pv[1], pv[2]), events)
\* there is no Release among the events
NoneReleased(events) == \A k \in 1..Len(events) : events[k].ev # "Release"

\* C37: when PushChunkToClosest or the handler has returned, on whatever
\* path, every Reserve that succeeded has exactly one Release for its peer
\* and its price and there is no other Release; until the function returns
\* nothing is released
C37_ReserveMatchedByRelease ==
    /\ push.pc = "done" => AllReleased(psEvents)
    /\ push.pc # "done" => NoneReleased(psEvents)
    /\ handler.pc = "done" => AllReleased(hEvents)
    /\ handler.pc # "done" => NoneReleased(hEvents)

\* a push that reserved for two peers, failed to reserve for a third and
\* returned the error, having released the two
C37_Witness ==
    /\ push.pc = "done"
    /\ push.res = "error"
    /\ Cardinality({k \in EventIdx : psEvents[k].ev = "Reserve"}) = 2
    /\ Cardinality({k \in EventIdx : psEvents[k].ev = "Release"}) = 2
    /\ \E k \in EventIdx : psEvents[k].ev = "ReserveErr"


(***************************************************************************)
(* Properties of the chunk feeder.                                         *)
(***************************************************************************)
\* the payload of a chunk given to the next stage, behind its span
Payload(data) == SubSeq(data, SpanSize + 1, Len(data))
\* the payloads of the chunks, one after the other
RECURSIVE Payloads(_)
Payloads(chunks) ==
    IF chunks = <<>> THEN <<>> ELSE Payload(Head(chunks)) \o Payloads(Tail(chunks))

\* C31 as stated: of the chunks given to the next stage every one but the
\* last of the stream carries FeederSize bytes of payload, whatever the
\* lengths of the slices written; the span of a chunk is the length of its
\* payload and, no ChainWrite having failed, the payloads make up the bytes
\* written
C31_Original ==
    /\ \A k \in 1..Len(feeder.chunks) :
          Uint64(SubSeq(feeder.chunks[k], 1, SpanSize)) = Len(Payload(feeder.chunks[k]))
    /\ ~feeder.failed => Payloads(feeder.chunks) = feeder.written
    /\ \A k \in 1..(Len(feeder.chunks) - 1) :
          Len(Payload(feeder.chunks[k])) = FeederSize

(***************************************************************************)
(* Properties of the uploads of single-owner chunks.                       *)
(***************************************************************************)
\* C40 as stated: of the uploads to one address at most one is answered
\* Created, and data that the store holds is never written over
C40_Original ==
    [][/\ \A u, v \in Uploads :
             (/\ u # v
              /\ uploads'[u].status = "Created"
              /\ uploads'[v].status = "Created") =>
                 SocAddress(uploads'[u].id) # SocAddress(uploads'[v].id)
       /\ \A a \in SocIds : socStore[a] # NoData => socStore'[a] = socStore[a]
      ]_vars

====
